---------------------------- MODULE Spec2Model ----------------------------
(***************************************************************************)
(* The test-execution ledger of gba_test (gba_test/src/test.rs), the test  *)
(* runner and panic handler that drive it across soft resets               *)
(* (gba_test/src/runner.rs), and the record decoders of the results        *)
(* window.  EWRAM is a byte-addressed memory; pointers are addresses.      *)
(***************************************************************************)
EXTENDS Integers, Sequences, FiniteSets, TLC

(***************************************************************************)
(* Bounds of the model.                                                    *)
(***************************************************************************)
\* The longest test list.
MaxTests == 3
\* Free bytes between __ewram_data_end and the top of EWRAM in the tight
\* layouts of the ledger harness.
LedgerFree == 24
\* Free bytes above __ewram_data_end in the roomy layout of the program.
RunnerFree == 256

(***************************************************************************)
(* Program constants.                                                      *)
(***************************************************************************)
\* 0x0204_0000, the first address past EWRAM.
EWRAM_MAX == 33816576
\* OutcomeVariant, #[repr(u8)].
Passed == 0
Failed == 1
Ignored == 2

\* The content of a byte of .noinit memory nothing has written yet.
Uninit == 0 - 1
\* Addresses past the top that the model still tracks, to see stray writes.
Slack == 8 * (MaxTests + 2)

(***************************************************************************)
(* Byte memory.                                                            *)
(***************************************************************************)
write_u8(m, a, v) == IF a \in DOMAIN m THEN [m EXCEPT ![a] = v] ELSE m

read_u8(m, a) == IF a \in DOMAIN m THEN m[a] ELSE Uninit

\* ptr::copy of the bytes of b to address a.
copy(m, a, b) ==
    [x \in DOMAIN m |->
        IF x >= a /\ x < a + Len(b) THEN b[x - a + 1] ELSE m[x]]

\* A usize is 32 bits wide, stored little-endian.
write_usize(m, a, v) ==
    copy(m, a, << v % 256, (v \div 256) % 256, (v \div 65536) % 256,
                  (v \div 16777216) % 256 >>)

read_usize(m, a) ==
    IF \E k \in 0..3 : read_u8(m, a + k) = Uninit
    THEN Uninit
    ELSE read_u8(m, a) + 256 * read_u8(m, a + 1) + 65536 * read_u8(m, a + 2)
         + 16777216 * read_u8(m, a + 3)

\* slice::from_raw_parts(bytes, length): the bytes as a sequence.  A slice
\* that is not inside the memory has no bytes to speak of.
from_raw_parts(m, bytes, length) ==
    IF length = Uninit THEN << Uninit >>
    ELSE IF length > 0 /\ ({ bytes, bytes + length - 1 } \subseteq DOMAIN m) = FALSE
    THEN << Uninit >>
    ELSE [i \in 1..length |-> read_u8(m, bytes + i - 1)]

(***************************************************************************)
(* alignment.rs                                                            *)
(***************************************************************************)
align_forward(p) == p + ((4 - (p % 4)) % 4)

align_backward(p) == p - (p % 4)

(***************************************************************************)
(* The text a Display implementation writes is a sequence of chunks, one   *)
(* per write_str call.                                                     *)
(***************************************************************************)
RECURSIVE Flatten(_)
Flatten(chunks) ==
    IF chunks = <<>> THEN <<>> ELSE Head(chunks) \o Flatten(Tail(chunks))

(***************************************************************************)
(* ErrorMessage: the scoped writer of one message record.                  *)
(***************************************************************************)
ErrorMessage_new(start) == [start |-> start, cursor |-> start + 4]

\* Write::write_str: ok is FALSE for Err(fmt::Error).
ErrorMessage_write_str(em, m, s) ==
    IF em.cursor + Len(s) + 4 > EWRAM_MAX
    THEN [ok |-> FALSE, em |-> em, m |-> m]
    ELSE [ok |-> TRUE,
          em |-> [em EXCEPT !.cursor = @ + Len(s)],
          m  |-> copy(m, em.cursor, s)]

\* write!(error_message, "{data}"): the chunks in order, stopping at the
\* first failed write_str.
RECURSIVE write_fmt(_, _, _)
write_fmt(em, m, chunks) ==
    IF chunks = <<>> THEN [ok |-> TRUE, em |-> em, m |-> m]
    ELSE LET w == ErrorMessage_write_str(em, m, Head(chunks))
         IN IF w.ok THEN write_fmt(w.em, w.m, Tail(chunks)) ELSE w

\* A drop that writes the footer at the cursor without aligning it.
ErrorMessage_drop_unaligned(em, m) ==
    LET length == em.cursor - (em.start + 4)
        m1     == write_usize(m, em.start, length)
        m2     == write_usize(m1, em.cursor, length)
    IN [start |-> em.cursor + 4, m |-> m2]

\* Drop::drop: header, footer, and the new value of the pointer `start`
\* refers to (the ledger's data cursor).
ErrorMessage_drop(em, m) ==
    LET length == em.cursor - (em.start + 4)
        m1     == write_usize(m, em.start, length)
        footer == align_forward(em.cursor)
        m2     == write_usize(m1, footer, length)
    IN [start |-> footer + 4, m |-> m2]

(***************************************************************************)
(* Tests: the ledger.  t is the struct, m the memory; an operation yields  *)
(* the new struct and memory, and panic = TRUE where the code panics.      *)
(***************************************************************************)
\* A Tests::new that is also fatal when the region starts at the top.
Tests_new_inclusive(n, d) ==
    LET unsized_data == align_forward(d + n)
    IN IF unsized_data >= EWRAM_MAX
       THEN [panic |-> TRUE]
       ELSE [panic |-> FALSE,
             t |-> [index |-> 0, waiting_for_completion |-> FALSE,
                    outcomes |-> d, data |-> unsized_data]]

Tests_new(n, d) ==
    LET unsized_data == align_forward(d + n)
    IN IF unsized_data > EWRAM_MAX
       THEN [panic |-> TRUE]
       ELSE [panic |-> FALSE,
             t |-> [index |-> 0, waiting_for_completion |-> FALSE,
                    outcomes |-> d, data |-> unsized_data]]

data_cursor(t) == t.data

\* A start_test that does not look at waiting_for_completion.
start_test_unguarded(t, n) ==
    IF t.index < n
    THEN [panic |-> FALSE, t |-> [t EXCEPT !.waiting_for_completion = TRUE],
          some |-> TRUE, test |-> t.index + 1]
    ELSE [panic |-> FALSE, t |-> t, some |-> FALSE, test |-> 0]

\* A start_test that sets waiting_for_completion before it looks for the test.
start_test_eager(t, n) ==
    IF t.waiting_for_completion
    THEN [panic |-> TRUE, t |-> t, some |-> FALSE, test |-> 0]
    ELSE [panic |-> FALSE, t |-> [t EXCEPT !.waiting_for_completion = TRUE],
          some |-> t.index < n, test |-> IF t.index < n THEN t.index + 1 ELSE 0]

\* some = TRUE with the index of the test returned, or None.
start_test(t, n) ==
    IF t.waiting_for_completion
    THEN [panic |-> TRUE, t |-> t, some |-> FALSE, test |-> 0]
    ELSE IF t.index < n
         THEN [panic |-> FALSE, t |-> [t EXCEPT !.waiting_for_completion = TRUE],
               some |-> TRUE, test |-> t.index + 1]
         ELSE [panic |-> FALSE, t |-> t, some |-> FALSE, test |-> 0]

current_test(t) ==
    IF ~t.waiting_for_completion
    THEN [some |-> FALSE, test |-> 0]
    ELSE [some |-> TRUE, test |-> t.index + 1]

\* A complete_test that clears waiting_for_completion only at its end.
complete_test_flag_late(t, m, outcome) ==
    IF ~t.waiting_for_completion
    THEN [panic |-> TRUE, t |-> t, m |-> m]
    ELSE LET t1 == [t EXCEPT !.outcomes = @ + 1]
             m1 == write_u8(m, t.outcomes, outcome.tag)
         IN IF outcome.tag = Failed
            THEN LET w == write_fmt(ErrorMessage_new(t1.data), m1, outcome.data)
                 IN IF ~w.ok
                    THEN [panic |-> TRUE, t |-> t1, m |-> w.m]
                    ELSE LET d == ErrorMessage_drop(w.em, w.m)
                         IN [panic |-> FALSE,
                             t |-> [t1 EXCEPT !.data = d.start, !.index = @ + 1,
                                              !.waiting_for_completion = FALSE],
                             m |-> d.m]
            ELSE [panic |-> FALSE,
                  t |-> [t1 EXCEPT !.index = @ + 1,
                                   !.waiting_for_completion = FALSE],
                  m |-> m1]

\* A complete_test that does not step the tag pointer on.
complete_test_same_slot(t, m, outcome) ==
    IF ~t.waiting_for_completion
    THEN [panic |-> TRUE, t |-> t, m |-> m]
    ELSE [panic |-> FALSE,
          t |-> [t EXCEPT !.waiting_for_completion = FALSE, !.index = @ + 1],
          m |-> write_u8(m, t.outcomes, outcome.tag)]

\* A complete_test that leaves index where it was.
complete_test_stuck(t, m, outcome) ==
    IF ~t.waiting_for_completion
    THEN [panic |-> TRUE, t |-> t, m |-> m]
    ELSE [panic |-> FALSE,
          t |-> [t EXCEPT !.waiting_for_completion = FALSE, !.outcomes = @ + 1],
          m |-> write_u8(m, t.outcomes, outcome.tag)]

\* outcome is [tag, data]: data is the chunks its Display writes.  A panic
\* never returns, so where the write fails the writer is not dropped and
\* index is not advanced.
complete_test(t, m, outcome) ==
    IF ~t.waiting_for_completion
    THEN [panic |-> TRUE, t |-> t, m |-> m]
    ELSE LET t1 == [t EXCEPT !.waiting_for_completion = FALSE,
                             !.outcomes = @ + 1]
             m1 == write_u8(m, t.outcomes, outcome.tag)
         IN IF outcome.tag = Failed
            THEN LET w == write_fmt(ErrorMessage_new(t1.data), m1, outcome.data)
                 IN IF ~w.ok
                    THEN [panic |-> TRUE, t |-> t1, m |-> w.m]
                    ELSE LET d == ErrorMessage_drop(w.em, w.m)
                         IN [panic |-> FALSE,
                             t |-> [t1 EXCEPT !.data = d.start, !.index = @ + 1],
                             m |-> d.m]
            ELSE [panic |-> FALSE, t |-> [t1 EXCEPT !.index = @ + 1], m |-> m1]

\* An outcomes() that does not look at index.
outcomes_unchecked(t, n) ==
    [panic |-> FALSE,
     o |-> [outcomes |-> t.outcomes - n, data |-> align_forward(t.outcomes)]]

\* An outcomes() that does not step back to the first tag.
outcomes_from_cursor(t, n) ==
    IF t.index < n
    THEN [panic |-> TRUE]
    ELSE [panic |-> FALSE,
          o |-> [outcomes |-> t.outcomes, data |-> align_forward(t.outcomes)]]

\* Tests::outcomes.
outcomes(t, n) ==
    IF t.index < n
    THEN [panic |-> TRUE]
    ELSE [panic |-> FALSE,
          o |-> [outcomes |-> t.outcomes - n, data |-> align_forward(t.outcomes)]]

\* TestOutcomes::iter: tests is the number of tests the slice iterator has
\* consumed.
TestOutcomes_iter(o) == [tests |-> 0, outcomes |-> o.outcomes, data |-> o.data]

\* TestOutcomesIter::next: some = FALSE for None, else the item's test,
\* tag and message, and the advanced iterator.
TestOutcomesIter_next(it, m, n) ==
    IF it.tests < n
    THEN LET outcome_variant == read_u8(m, it.outcomes)
             length == read_usize(m, it.data)
         IN IF outcome_variant = Failed
            THEN [some |-> TRUE, test |-> it.tests + 1, tag |-> Failed,
                  data |-> from_raw_parts(m, it.data + 4, length),
                  it |-> [tests |-> it.tests + 1, outcomes |-> it.outcomes + 1,
                          data |-> align_forward(it.data + length + 8)]]
            ELSE [some |-> TRUE, test |-> it.tests + 1, tag |-> outcome_variant,
                  data |-> <<>>,
                  it |-> [tests |-> it.tests + 1, outcomes |-> it.outcomes + 1,
                          data |-> it.data]]
    ELSE [some |-> FALSE, it |-> it]

\* Window::next_error_message: the message and the moved pointer.
next_error_message(m, error_message) ==
    LET length == read_usize(m, error_message)
        bytes  == error_message + 4
        next   == bytes + (length + 4)
    IN IF length = Uninit
       THEN [error_message |-> Uninit, str |-> << Uninit >>]
       ELSE [error_message |-> align_forward(next),
             str |-> from_raw_parts(m, bytes, length)]

\* Window::prev_error_message.  A length read from where nothing was
\* written is any number: the pointer it leads to is Uninit from then on.
prev_error_message(m, error_message) ==
    LET error_message_length == error_message - 4
        length == read_usize(m, error_message_length)
        bytes  == error_message_length - length
        prev   == bytes - 4
    IN IF length = Uninit
       THEN [error_message |-> Uninit, str |-> << Uninit >>]
       ELSE [error_message |-> align_backward(prev),
             str |-> from_raw_parts(m, bytes, length)]


(***************************************************************************)
(* contains.rs: whether the panic message contains a substring.  The       *)
(* message is what formatting info.message() writes: the same chunks every *)
(* time it is formatted.                                                   *)
(***************************************************************************)
BASE == 256
MODULUS == 101

\* A usize is 32 bits wide on the ARM7TDMI.  One is kept here as an
\* integer congruent to it modulo 2^32: itself while nothing has wrapped,
\* and the negative number d for the 2^32 + d a subtraction wrapped to.
\* Sums, differences and products of such integers are congruent to the
\* wrapping sums, differences and products.
wrapping_mul(a, b) == a * b
wrapping_add(a, b) == a + b

\* a % m for the usize a: 2^32 is added back to a negative stand-in, and
\* 2^32 % m = ((2^16 % m) * (2^16 % m)) % m.
usize_rem(a, m) ==
    IF a >= 0 THEN a % m
    ELSE ((a % m) + (((65536 % m) * (65536 % m)) % m)) % m

\* One step of the polynomial hash: multiply, reduce, add, reduce.
roll(h, byte) ==
    usize_rem(wrapping_add(usize_rem(wrapping_mul(h, BASE), MODULUS), byte),
              MODULUS)

RECURSIVE hash_from(_, _)
hash_from(h, string) ==
    IF string = <<>> THEN h ELSE hash_from(roll(h, Head(string)), Tail(string))

hash(string) == hash_from(0, string)

\* str::contains.
str_contains(haystack, needle) ==
    \E i \in 0..(Len(haystack) - Len(needle)) :
        \A j \in 1..Len(needle) : haystack[i + j] = needle[j]

\* ByteRemover::write_str: panic = TRUE where s.as_bytes()[self.index] is
\* out of bounds, with the len and the index of the bounds check.
\* underflow = TRUE where `*self.rolling_hash -= removed_hash` goes below
\* zero: a build with overflow checks panics there, a build without them
\* goes on with the difference wrapped to 32 bits, which is the value kept
\* here.
RECURSIVE removed_hash(_, _)
removed_hash(h, n) ==
    IF n <= 1 THEN h
    ELSE removed_hash(usize_rem(wrapping_mul(h, BASE), MODULUS), n - 1)

\* *self.rolling_hash -= removed_hash, on operands that have not wrapped.
ByteRemover_subtract(rolling_hash, removed) ==
    [value |-> rolling_hash - removed, underflow |-> rolling_hash < removed]

ByteRemover_write_str(br, s) ==
    IF br.done \/ br.panic THEN br
    ELSE IF br.index > Len(s) THEN [br EXCEPT !.index = @ - Len(s)]
    ELSE IF br.index >= Len(s) THEN [br EXCEPT !.panic = TRUE, !.len = Len(s)]
    ELSE LET d == ByteRemover_subtract(
                      br.rolling_hash + MODULUS,
                      removed_hash(s[br.index + 1], br.length))
         IN [br EXCEPT !.rolling_hash = d.value,
                       !.underflow = d.underflow,
                       !.done = TRUE]

\* write!(byte_remover, "{}", self.info.message()).
RECURSIVE ByteRemover_write(_, _)
ByteRemover_write(br, chunks) ==
    IF chunks = <<>> THEN br
    ELSE ByteRemover_write(ByteRemover_write_str(br, Head(chunks)), Tail(chunks))

\* EqualityComparison::write_str over the bytes of s from position i on;
\* bytes is what is left of the iterator over the target string.  Both
\* iterators are advanced before the pair is matched.
RECURSIVE EqualityComparison_compare(_, _, _)
EqualityComparison_compare(eq, s, i) ==
    IF i <= Len(s) /\ eq.bytes # <<>>
    THEN IF s[i] # Head(eq.bytes)
         THEN [eq EXCEPT !.result = "false"]
         ELSE EqualityComparison_compare([eq EXCEPT !.bytes = Tail(@)], s, i + 1)
    ELSE IF eq.bytes = <<>>
         THEN [eq EXCEPT !.result = "true"]
         ELSE [eq EXCEPT !.bytes = Tail(@)]

EqualityComparison_write_str(eq, s) ==
    IF eq.result # "none" THEN eq
    ELSE IF eq.index > Len(s) THEN [eq EXCEPT !.index = @ - Len(s)]
    ELSE EqualityComparison_compare([eq EXCEPT !.index = 0], s, eq.index + 1)

\* write!(equality_comparison, "{}", self.info.message()).
RECURSIVE EqualityComparison_write(_, _)
EqualityComparison_write(eq, chunks) ==
    IF chunks = <<>> THEN eq
    ELSE EqualityComparison_write(EqualityComparison_write_str(eq, Head(chunks)),
                                  Tail(chunks))

RabinKarpSearch_new(string, message) ==
    [string |-> string, hash |-> hash(string), length |-> Len(string),
     rolling_hash |-> 0, rolled |-> 0, index |-> 0, message |-> message,
     found |-> FALSE, panic |-> FALSE, len |-> 0, underflow |-> FALSE]

\* RabinKarpSearch::write_str from byte i of s on: the initial fill, then
\* compare, remove the oldest byte, add the next.
RECURSIVE RabinKarpSearch_scan(_, _, _)
RabinKarpSearch_scan(rk, s, i) ==
    IF rk.rolled < rk.length
    THEN IF i <= Len(s)
         THEN RabinKarpSearch_scan(
                  [rk EXCEPT !.rolling_hash = roll(@, s[i]), !.rolled = @ + 1],
                  s, i + 1)
         ELSE rk
    ELSE IF /\ rk.hash = rk.rolling_hash
            /\ EqualityComparison_write(
                   [bytes |-> rk.string, index |-> rk.index, result |-> "none"],
                   rk.message).result = "true"
         THEN [rk EXCEPT !.found = TRUE]
         ELSE IF i <= Len(s)
              THEN LET br == ByteRemover_write(
                                 [rolling_hash |-> rk.rolling_hash,
                                  length |-> rk.length, index |-> rk.index,
                                  done |-> FALSE, panic |-> FALSE, len |-> 0,
                                  underflow |-> FALSE],
                                 rk.message)
                   IN IF br.panic
                      THEN [rk EXCEPT !.panic = TRUE, !.len = br.len,
                                      !.index = br.index]
                      ELSE RabinKarpSearch_scan(
                               [rk EXCEPT !.rolling_hash = roll(br.rolling_hash, s[i]),
                                          !.index = @ + 1,
                                          !.underflow = @ \/ br.underflow],
                               s, i + 1)
              ELSE rk

RabinKarpSearch_write_str(rk, s) ==
    IF rk.found \/ rk.panic THEN rk ELSE RabinKarpSearch_scan(rk, s, 1)

\* write!(searcher, "{}", info.message()).
RECURSIVE RabinKarpSearch_write(_, _)
RabinKarpSearch_write(rk, chunks) ==
    IF chunks = <<>> THEN rk
    ELSE RabinKarpSearch_write(RabinKarpSearch_write_str(rk, Head(chunks)),
                               Tail(chunks))

\* contains(info, substring): found, or panic with the failed bounds check;
\* underflow says that a subtraction wrapped on the way.
contains(info, substring) ==
    IF substring = <<>>
    THEN [panic |-> FALSE, found |-> TRUE, len |-> 0, index |-> 0,
          underflow |-> FALSE]
    ELSE IF info.as_str
         THEN [panic |-> FALSE,
               found |-> str_contains(Flatten(info.message), substring),
               len |-> 0, index |-> 0, underflow |-> FALSE]
         ELSE LET rk == RabinKarpSearch_write(
                            RabinKarpSearch_new(substring, info.message),
                            info.message)
              IN [panic |-> rk.panic, found |-> rk.found, len |-> rk.len,
                  index |-> rk.index, underflow |-> rk.underflow]

(***************************************************************************)
(* The texts the runner and the panic handler write.                       *)
(***************************************************************************)
\* "note: test did not panic as expected"
NoteDidNotPanic ==
    << 110, 111, 116, 101, 58, 32, 116, 101, 115, 116, 32, 100, 105, 100,
       32, 110, 111, 116, 32, 112, 97, 110, 105, 99, 32, 97, 115, 32, 101,
       120, 112, 101, 99, 116, 101, 100 >>

\* "panic did not contain expected string\n     panic message: `"
DidNotContain ==
    << 112, 97, 110, 105, 99, 32, 100, 105, 100, 32, 110, 111, 116, 32, 99,
       111, 110, 116, 97, 105, 110, 32, 101, 120, 112, 101, 99, 116, 101,
       100, 32, 115, 116, 114, 105, 110, 103, 10, 32, 32, 32, 32, 32, 112,
       97, 110, 105, 99, 32, 109, 101, 115, 115, 97, 103, 101, 58, 32, 96 >>

\* "`\nexpected substring: `"
ExpectedSubstring ==
    << 96, 10, 101, 120, 112, 101, 99, 116, 101, 100, 32, 115, 117, 98,
       115, 116, 114, 105, 110, 103, 58, 32, 96 >>

\* "`"
Backtick == << 96 >>

\* "not enough space to store error message: "
NotEnoughSpace ==
    << 110, 111, 116, 32, 101, 110, 111, 117, 103, 104, 32, 115, 112, 97,
       99, 101, 32, 116, 111, 32, 115, 116, 111, 114, 101, 32, 101, 114,
       114, 111, 114, 32, 109, 101, 115, 115, 97, 103, 101, 58, 32 >>

\* "panicked at " and ":\n", around the location in the Display of PanicInfo.
PanickedAt ==
    << 112, 97, 110, 105, 99, 107, 101, 100, 32, 97, 116, 32 >>

ColonNewline == << 58, 10 >>

\* The message of a failed bounds check:
\* "index out of bounds: the len is {len} but the index is {index}".
IndexOutOfBounds ==
    << 105, 110, 100, 101, 120, 32, 111, 117, 116, 32, 111, 102, 32, 98,
       111, 117, 110, 100, 115, 58, 32, 116, 104, 101, 32, 108, 101, 110,
       32, 105, 115, 32 >>

ButTheIndexIs ==
    << 32, 98, 117, 116, 32, 116, 104, 101, 32, 105, 110, 100, 101, 120,
       32, 105, 115, 32 >>

\* The decimal digits of n, as its Display writes them.
RECURSIVE Decimal(_)
Decimal(n) ==
    IF n < 10 THEN << 48 + n >> ELSE Append(Decimal(n \div 10), 48 + (n % 10))

\* A PanicInfo: the chunks formatting its message writes, whether the
\* message is one literal (Arguments::as_str is Some), and the chunks of
\* its location.
PanicInfo(message, as_str, location) ==
    [message |-> message, as_str |-> as_str, location |-> location]

\* "a:1:1"
Location == << <<97>>, <<58>>, <<49>>, <<58>>, <<49>> >>

\* What "{info}" writes.
PanicInfo_fmt(info) ==
    << PanickedAt >> \o info.location \o << ColonNewline >> \o info.message

\* What the format_args! of the unexpected panic message writes.
DidNotContain_fmt(panic_message, message) ==
    << DidNotContain >> \o panic_message \o << ExpectedSubstring, message, Backtick >>

\* The panic of s.as_bytes()[index] with index >= len.
BoundsCheckInfo(len, index) ==
    PanicInfo(<< IndexOutOfBounds, Decimal(len), ButTheIndexIs, Decimal(index) >>,
              FALSE, Location)

\* The message of a failed overflow check:
\* "attempt to subtract with overflow".
SubtractWithOverflow ==
    << 97, 116, 116, 101, 109, 112, 116, 32, 116, 111, 32, 115, 117, 98,
       116, 114, 97, 99, 116, 32, 119, 105, 116, 104, 32, 111, 118, 101,
       114, 102, 108, 111, 119 >>

\* The panic of `-=` in a build with overflow checks; the message is a
\* literal.
OverflowCheckInfo == PanicInfo(<< SubtractWithOverflow >>, TRUE, Location)

\* What a call of contains comes to in a build with overflow checks
\* (checks = TRUE) and in one without: where a subtraction went below zero
\* the first panics there, the second goes on with the wrapped value.
matched(checks, c) ==
    IF checks /\ c.underflow
    THEN [panic |-> TRUE, found |-> FALSE, info |-> OverflowCheckInfo]
    ELSE [panic |-> c.panic, found |-> c.found,
          info |-> BoundsCheckInfo(c.len, c.index)]

\* The panic of complete_test when the message does not fit.
NotEnoughSpaceInfo(data) == PanicInfo(<< NotEnoughSpace >> \o data, FALSE, Location)

(***************************************************************************)
(* State.                                                                  *)
(***************************************************************************)
VARIABLES
    tests,            \* the static test list handed to the runner
    ewram_data_end,   \* the linker symbol __ewram_data_end
    INITIALIZED,      \* runner.rs: static mut INITIALIZED
    TESTS,            \* runner.rs: static mut TESTS
    mem,              \* EWRAM from __ewram_data_end upwards
    pc,               \* where control is
    reported,         \* the codes passed to report_result, in order
    view,             \* the TestOutcomes that Tests::outcomes returned
    iter,             \* a TestOutcomesIter
    yielded,          \* the items the iterator has yielded
    error_message,    \* a window's pointer into the message region
    decoded,          \* the last record decoded through error_message
    last,             \* the last ledger call and what it returned
    completed,        \* history: the outcome handed to each complete_test
    records,          \* history: the place and text of each finalized record
    started,          \* history: the tests start_test has returned
    inflight,         \* history: a started test has not been completed
    info,             \* the PanicInfo the panic handler was entered with
    runs,             \* history: how often each test's run() was called
    resets,           \* history: how many soft resets were performed
    creations,        \* history: how often Tests::new was called
    window,           \* a Window over the finished ledger
    fresh,            \* history: the window as Window::new returned it
    trip,             \* history: the next() and prev() calls since then
    slide,            \* the last window call and what it returned
    walker,           \* a TestOutcomesModules
    walked,           \* the module paths the walker has returned
    earlier,          \* history: the last walk that was walked to its end
    answer,           \* what contains() returned, once it was called
    searcher,         \* a RabinKarpSearch that is being written to
    fed,              \* how many bytes of the message it has been through
    STATE_,           \* allocator.rs: static mut STATE
    blocks,           \* history: what alloc returned since allocator::init
    IME               \* the interrupt master enable register

vars == << tests, ewram_data_end, INITIALIZED, TESTS, mem, pc, reported, view,
           iter, yielded, error_message, decoded, last, completed, records,
           started, inflight, info, runs, resets, creations, window, fresh,
           trip, slide, walker, walked, earlier, answer, searcher, fed,
           STATE_, blocks, IME >>

\* What only the runner and the panic handler use, and what only the ledger's
\* own harness uses.
runnerVars == << info, runs, resets, creations >>
harnessVars == << iter, error_message, decoded, last >>
windowVars == << window, fresh, trip, slide >>
walkVars == << walker, walked, earlier >>
matchVars == << answer, searcher, fed >>
allocVars == << STATE_, blocks >>

\* The initializer of static mut STATE: the cursor at the top of EWRAM, the
\* limit at the linker symbol.
STATE_static(end) == [cursor |-> EWRAM_MAX, limit |-> end]

\* An init that leaves the limit where the last boot put it.
allocator_init_stale(state, limit) == [cursor |-> EWRAM_MAX, limit |-> state.limit]

\* allocator::init(limit).
allocator_init(state, limit) == [cursor |-> EWRAM_MAX, limit |-> limit]

\* MaybeUninit::uninit() in .noinit.
UninitTests == [index |-> Uninit, waiting_for_completion |-> FALSE,
                outcomes |-> Uninit, data |-> Uninit]

NoView == [outcomes |-> Uninit, data |-> Uninit]
NoIter == [tests |-> 0, outcomes |-> Uninit, data |-> Uninit]
NoDecode == [dir |-> "none", from |-> Uninit, str |-> <<>>]
NoCall == [op |-> "none", panic |-> FALSE, some |-> FALSE, test |-> 0]
NoInfo == PanicInfo(<<>>, FALSE, <<>>)
NoModuleFilter == [some |-> FALSE, module_path |-> <<>>]
NoWindow == [test_case |-> 0, outcome |-> Uninit,
             error_message_front |-> Uninit, error_message_back |-> Uninit,
             length |-> 0, index |-> 0, filtered_length |-> 0,
             filtered_index |-> 0, filter |-> "none",
             module_filter |-> NoModuleFilter]
NoWalker == [tests |-> 0, parent |-> <<>>,
             current |-> [some |-> FALSE, modules |-> <<>>, index |-> 0],
             previous |-> [some |-> FALSE, path |-> <<>>],
             returned_none |-> FALSE]
NoEarlier == [some |-> FALSE, parent |-> <<>>, walked |-> <<>>]
NoSearcher == [length |-> 0]
NoAnswer == [called |-> FALSE, panic |-> FALSE, found |-> FALSE]
NoTrip == [nexts |-> 0, prevs |-> 0, there_and_back |-> FALSE]
NoSlide == [op |-> "none", some |-> FALSE, ub |-> FALSE, tag |-> Uninit]

EmptyMemory(d) == [a \in d..(EWRAM_MAX + Slack - 1) |-> Uninit]

(***************************************************************************)
(* The ledger on its own: Tests driven through its methods in any order,   *)
(* then read back.  The test list only matters by its length here.         *)
(***************************************************************************)
PlainTest == [ignore |-> "No", should_panic |-> "No", expected |-> <<>>,
              body |-> "returns", message |-> <<>>, as_str |-> FALSE,
              modules |-> << "tests" >>]

\* Values of __ewram_data_end: roomy at each alignment, tight, and too
\* tight for the tag array.
LedgerStarts ==
    {EWRAM_MAX - 3 * LedgerFree - k : k \in 0..3}
        \cup {EWRAM_MAX - LedgerFree, EWRAM_MAX - 2}

\* What the Display of a Failed outcome's data writes: no write_str at
\* all, one empty chunk, "foo", "ba" in two chunks, "foo!" "" "z".
LedgerTexts ==
    { <<>>,
      << <<>> >>,
      << <<102, 111, 111>> >>,
      << <<98>>, <<97>> >>,
      << <<102, 111, 111, 33>>, <<>>, <<122>> >> }

LedgerOutcomes ==
    { [tag |-> Passed, data |-> <<>>], [tag |-> Ignored, data |-> <<>>] }
        \cup { [tag |-> Failed, data |-> c] : c \in LedgerTexts }

LedgerInit ==
    /\ \E n \in 0..MaxTests : tests = [i \in 1..n |-> PlainTest]
    /\ ewram_data_end \in LedgerStarts
    /\ INITIALIZED = FALSE
    /\ TESTS = UninitTests
    /\ mem = EmptyMemory(ewram_data_end)
    /\ pc = "new"
    /\ reported = <<>>
    /\ view = NoView
    /\ iter = NoIter
    /\ yielded = <<>>
    /\ error_message = Uninit
    /\ decoded = NoDecode
    /\ last = NoCall
    /\ completed = <<>>
    /\ records = <<>>
    /\ started = <<>>
    /\ inflight = FALSE
    /\ info = NoInfo
    /\ runs = [i \in 1..Len(tests) |-> 0]
    /\ resets = 0
    /\ creations = 0
    /\ window = NoWindow
    /\ fresh = NoWindow
    /\ trip = NoTrip
    /\ slide = NoSlide
    /\ walker = NoWalker
    /\ walked = <<>>
    /\ earlier = NoEarlier
    /\ answer = NoAnswer
    /\ searcher = NoSearcher
    /\ fed = 0
    /\ STATE_ = STATE_static(ewram_data_end)
    /\ blocks = <<>>
    /\ IME = FALSE

\* Tests::new(tests, data).
LedgerNew ==
    /\ pc = "new"
    /\ LET r == Tests_new(Len(tests), ewram_data_end)
       IN IF r.panic
          THEN /\ pc' = "fatal"
               /\ UNCHANGED << TESTS, INITIALIZED >>
          ELSE /\ pc' = "api"
               /\ TESTS' = r.t
               /\ INITIALIZED' = TRUE
    /\ last' = [NoCall EXCEPT !.op = "new"]
    /\ UNCHANGED << tests, ewram_data_end, mem, reported, view, iter, yielded,
                    error_message, decoded, completed, records, started,
                    inflight >>
    /\ UNCHANGED runnerVars
    /\ UNCHANGED windowVars
    /\ UNCHANGED walkVars
    /\ UNCHANGED matchVars
    /\ UNCHANGED allocVars
    /\ UNCHANGED IME

\* tests.start_test().
LedgerStart ==
    /\ pc = "api"
    /\ LET r == start_test(TESTS, Len(tests))
       IN /\ pc' = IF r.panic THEN "fatal" ELSE "api"
          /\ TESTS' = r.t
          /\ last' = [op |-> "start_test", panic |-> r.panic, some |-> r.some,
                      test |-> r.test]
          /\ started' = IF r.some THEN Append(started, r.test) ELSE started
          /\ inflight' = IF r.panic THEN inflight ELSE r.some
    /\ UNCHANGED << tests, ewram_data_end, INITIALIZED, mem, reported, view,
                    iter, yielded, error_message, decoded, completed, records >>
    /\ UNCHANGED runnerVars
    /\ UNCHANGED windowVars
    /\ UNCHANGED walkVars
    /\ UNCHANGED matchVars
    /\ UNCHANGED allocVars
    /\ UNCHANGED IME

\* tests.current_test().
LedgerCurrent ==
    /\ pc = "api"
    /\ LET r == current_test(TESTS)
       IN last' = [op |-> "current_test", panic |-> FALSE, some |-> r.some,
                   test |-> r.test]
    /\ UNCHANGED << tests, ewram_data_end, INITIALIZED, TESTS, mem, pc,
                    reported, view, iter, yielded, error_message, decoded,
                    completed, records, started, inflight >>
    /\ UNCHANGED runnerVars
    /\ UNCHANGED windowVars
    /\ UNCHANGED walkVars
    /\ UNCHANGED matchVars
    /\ UNCHANGED allocVars
    /\ UNCHANGED IME

\* The history of a complete_test(outcome) that was not rejected outright:
\* the outcome, and for a finalized record where it lies.
Completion(t, r, outcome) ==
    [test |-> t.index + 1, tag |-> outcome.tag, data |-> Flatten(outcome.data)]

Finalized(t, r, outcome) ==
    IF outcome.tag = Failed /\ ~r.panic
    THEN << [start |-> t.data, end |-> r.t.data, str |-> Flatten(outcome.data)] >>
    ELSE <<>>

\* tests.complete_test(outcome).
LedgerComplete ==
    /\ pc = "api"
    /\ \E outcome \in LedgerOutcomes :
         LET r == complete_test(TESTS, mem, outcome)
         IN /\ pc' = IF r.panic THEN "fatal" ELSE "api"
            /\ TESTS' = r.t
            /\ mem' = r.m
            /\ last' = [op |-> "complete_test", panic |-> r.panic,
                        some |-> FALSE, test |-> 0]
            /\ completed' = IF TESTS.waiting_for_completion /\ ~r.panic
                            THEN Append(completed, Completion(TESTS, r, outcome))
                            ELSE completed
            /\ records' = records \o Finalized(TESTS, r, outcome)
            /\ inflight' = IF inflight THEN FALSE ELSE inflight
    /\ UNCHANGED << tests, ewram_data_end, INITIALIZED, reported, view, iter,
                    yielded, error_message, decoded, started >>
    /\ UNCHANGED runnerVars
    /\ UNCHANGED windowVars
    /\ UNCHANGED walkVars
    /\ UNCHANGED matchVars
    /\ UNCHANGED allocVars
    /\ UNCHANGED IME

\* tests.outcomes().iter().
LedgerOutcomes_ ==
    /\ pc = "api"
    /\ LET r == outcomes(TESTS, Len(tests))
       IN IF r.panic
          THEN /\ pc' = "fatal"
               /\ UNCHANGED << view, iter >>
          ELSE /\ pc' = "iter"
               /\ view' = r.o
               /\ iter' = TestOutcomes_iter(r.o)
    /\ last' = [NoCall EXCEPT !.op = "outcomes"]
    /\ UNCHANGED << tests, ewram_data_end, INITIALIZED, TESTS, mem, reported,
                    yielded, error_message, decoded, completed, records,
                    started, inflight >>
    /\ UNCHANGED runnerVars
    /\ UNCHANGED windowVars
    /\ UNCHANGED walkVars
    /\ UNCHANGED matchVars
    /\ UNCHANGED allocVars
    /\ UNCHANGED IME

\* iter.next(); after None a window pointer is placed on the first record,
\* as Window::new places error_message_front.
IterNext ==
    /\ pc = "iter"
    /\ LET r == TestOutcomesIter_next(iter, mem, Len(tests))
       IN IF r.some
          THEN /\ yielded' = Append(yielded,
                      [test |-> r.test, tag |-> r.tag, data |-> r.data])
               /\ iter' = r.it
               /\ UNCHANGED << pc, error_message >>
          ELSE /\ pc' = "decode"
               /\ error_message' = view.data
               /\ UNCHANGED << yielded, iter >>
    /\ UNCHANGED << tests, ewram_data_end, INITIALIZED, TESTS, mem, reported,
                    view, decoded, last, completed, records, started, inflight >>
    /\ UNCHANGED runnerVars
    /\ UNCHANGED windowVars
    /\ UNCHANGED walkVars
    /\ UNCHANGED matchVars
    /\ UNCHANGED allocVars
    /\ UNCHANGED IME

\* Window::next_error_message(&mut error_message), with a record ahead.
DecodeNext ==
    /\ pc = "decode"
    /\ \E k \in 1..Len(records) : records[k].start = error_message
    /\ LET r == next_error_message(mem, error_message)
       IN /\ error_message' = r.error_message
          /\ decoded' = [dir |-> "next", from |-> error_message, str |-> r.str]
    /\ UNCHANGED << tests, ewram_data_end, INITIALIZED, TESTS, mem, pc,
                    reported, view, iter, yielded, last, completed, records,
                    started, inflight >>
    /\ UNCHANGED runnerVars
    /\ UNCHANGED windowVars
    /\ UNCHANGED walkVars
    /\ UNCHANGED matchVars
    /\ UNCHANGED allocVars
    /\ UNCHANGED IME

\* Window::prev_error_message(&mut error_message), with a record behind.
DecodePrev ==
    /\ pc = "decode"
    /\ \E k \in 1..Len(records) : records[k].end = error_message
    /\ LET r == prev_error_message(mem, error_message)
       IN /\ error_message' = r.error_message
          /\ decoded' = [dir |-> "prev", from |-> error_message, str |-> r.str]
    /\ UNCHANGED << tests, ewram_data_end, INITIALIZED, TESTS, mem, pc,
                    reported, view, iter, yielded, last, completed, records,
                    started, inflight >>
    /\ UNCHANGED runnerVars
    /\ UNCHANGED windowVars
    /\ UNCHANGED walkVars
    /\ UNCHANGED matchVars
    /\ UNCHANGED allocVars
    /\ UNCHANGED IME

LedgerNext ==
    \/ LedgerNew
    \/ LedgerStart
    \/ LedgerCurrent
    \/ LedgerComplete
    \/ LedgerOutcomes_
    \/ IterNext
    \/ DecodeNext
    \/ DecodePrev

SpecLedger == LedgerInit /\ [][LedgerNext]_vars


(***************************************************************************)
(* The runner, the panic handler and the soft reset.                       *)
(***************************************************************************)
\* mmio/bios.rs: the flags of RegisterRamReset; self.0 | bit.
RegisterRamReset_new == 0
with_bit(self, bit) == IF (self \div bit) % 2 = 1 THEN self ELSE self + bit
\* A builder method that sets the EWRAM bit.
with_ewram(self) == with_bit(self, 1)

with_palette(self) == with_bit(self, 4)
with_vram(self) == with_bit(self, 8)
with_oam(self) == with_bit(self, 16)
with_sio_registers(self) == with_bit(self, 32)
with_sound_registers(self) == with_bit(self, 64)
with_other_registers(self) == with_bit(self, 128)
to_u8(self) == self

\* The flags reset() passes in r0.
reset_flags ==
    to_u8(with_other_registers(with_sound_registers(with_sio_registers(
        with_oam(with_vram(with_palette(RegisterRamReset_new)))))))

\* What swi 0x01 with these flags and swi 0x00 leave of .noinit and the
\* heap: bit 0 of the flags clears EWRAM.
reset_with(flags, init, t, m) ==
    IF flags % 2 = 1
    THEN [INITIALIZED |-> FALSE,
          TESTS |-> [index |-> 0, waiting_for_completion |-> FALSE,
                     outcomes |-> 0, data |-> 0],
          mem |-> [a \in DOMAIN m |-> 0]]
    ELSE [INITIALIZED |-> init, TESTS |-> t, mem |-> m]

\* A reset that also asks for EWRAM to be cleared.
reset_clearing_ewram(init, t, m) == reset_with(with_bit(reset_flags, 1), init, t, m)

reset(init, t, m) == reset_with(reset_flags, init, t, m)

\* The digits of a pointer as {:?} writes them.
RECURSIVE LowerHex(_)
LowerHex(n) ==
    LET digit == IF n % 16 < 10 THEN 48 + (n % 16) ELSE 87 + (n % 16)
    IN IF n < 16 THEN << digit >> ELSE Append(LowerHex(n \div 16), digit)

\* The panics of the ledger and of store_outcome.
TestsNewInfo(d, n) ==
    PanicInfo(<< << 110, 111, 116, 32, 101, 110, 111, 117, 103, 104, 32,
                    109, 101, 109, 111, 114, 121, 32, 97, 118, 97, 105,
                    108, 97, 98, 108, 101, 32, 116, 111, 32, 115, 116, 111,
                    114, 101, 32, 111, 117, 116, 99, 111, 109, 101, 32,
                    118, 97, 114, 105, 97, 110, 116, 115, 59, 32, 96, 100,
                    97, 116, 97, 96, 32, 115, 116, 97, 114, 116, 115, 32,
                    97, 116, 32 >>,
                 << 48, 120 >> \o LowerHex(d),
                 << 44, 32, 97, 110, 100, 32 >>,
                 Decimal(n),
                 << 32, 98, 121, 116, 101, 115, 32, 97, 114, 101, 32, 114,
                    101, 113, 117, 105, 114, 101, 100, 32, 116, 111, 32,
                    98, 101, 32, 115, 116, 111, 114, 101, 100, 32, 102,
                    111, 114, 32, 116, 104, 101, 32, 118, 97, 114, 105, 97,
                    110, 116, 115 >> >>,
              FALSE, Location)

StartTestInfo(index) ==
    PanicInfo(<< << 112, 114, 101, 118, 105, 111, 117, 115, 32, 116, 101,
                    115, 116, 32, 97, 116, 32, 105, 110, 100, 101, 120,
                    32 >>,
                 Decimal(index),
                 << 32, 119, 97, 115, 32, 110, 111, 116, 32, 99, 111, 109,
                    112, 108, 101, 116, 101, 100 >> >>,
              FALSE, Location)

NoTestExecutingInfo ==
    PanicInfo(<< << 97, 32, 116, 101, 115, 116, 32, 119, 97, 115, 32, 97,
                    116, 116, 101, 109, 112, 116, 101, 100, 32, 116, 111,
                    32, 98, 101, 32, 109, 97, 114, 107, 101, 100, 32, 97,
                    115, 32, 99, 111, 109, 112, 108, 101, 116, 101, 44, 32,
                    98, 117, 116, 32, 110, 111, 32, 116, 101, 115, 116, 32,
                    105, 115, 32, 101, 120, 101, 99, 117, 116, 105, 110,
                    103 >> >>,
              TRUE, Location)

NotAllExecutedInfo ==
    PanicInfo(<< << 110, 111, 116, 32, 97, 108, 108, 32, 116, 101, 115,
                    116, 115, 32, 104, 97, 118, 101, 32, 98, 101, 101, 110,
                    32, 101, 120, 101, 99, 117, 116, 101, 100 >> >>,
              TRUE, Location)

NotInitializedInfo ==
    PanicInfo(<< << 97, 116, 116, 101, 109, 112, 116, 101, 100, 32, 116,
                    111, 32, 119, 114, 105, 116, 101, 32, 111, 117, 116,
                    99, 111, 109, 101, 44, 32, 98, 117, 116, 32, 96, 84,
                    69, 83, 84, 83, 96, 32, 105, 115, 32, 110, 111, 116,
                    32, 105, 110, 105, 116, 105, 97, 108, 105, 122, 101,
                    100 >> >>,
              TRUE, Location)

\* An expect() of the user interface failing: "failed to write test
\* outcome", ": ", "Error".
UiInfo ==
    PanicInfo(<< << 102, 97, 105, 108, 101, 100, 32, 116, 111, 32, 119,
                    114, 105, 116, 101, 32, 116, 101, 115, 116, 32, 111,
                    117, 116, 99, 111, 109, 101 >>,
                 << 58, 32 >>,
                 << 69, 114, 114, 111, 114 >> >>,
              FALSE, Location)

\* store_outcome(outcome): panic = TRUE with the PanicInfo where it panics.
store_outcome(init, t, m, outcome) ==
    IF init
    THEN LET r == complete_test(t, m, outcome)
         IN [panic |-> r.panic, t |-> r.t, m |-> r.m,
             info |-> IF ~r.panic THEN NoInfo
                      ELSE IF ~t.waiting_for_completion THEN NoTestExecutingInfo
                      ELSE NotEnoughSpaceInfo(outcome.data)]
    ELSE [panic |-> TRUE, t |-> t, m |-> m, info |-> NotInitializedInfo]

\* An initialization block that does not look at the flag.
runner_init_always(init, t, n, d) ==
    LET r == Tests_new(n, d)
    IN IF r.panic
       THEN [panic |-> TRUE, INITIALIZED |-> init, TESTS |-> t, created |-> 1]
       ELSE [panic |-> FALSE, INITIALIZED |-> TRUE, TESTS |-> r.t, created |-> 1]

\* The `if !INITIALIZED` block of runner().
runner_init(init, t, n, d) ==
    IF init
    THEN [panic |-> FALSE, INITIALIZED |-> init, TESTS |-> t, created |-> 0]
    ELSE LET r == Tests_new(n, d)
         IN IF r.panic
            THEN [panic |-> TRUE, INITIALIZED |-> init, TESTS |-> t, created |-> 1]
            ELSE [panic |-> FALSE, INITIALIZED |-> TRUE, TESTS |-> r.t,
                  created |-> 1]

\* outcomes.iter().any(|(_, outcome)| matches!(outcome, Outcome::Failed(_))).
RECURSIVE any_failed(_, _, _)
any_failed(it, m, n) ==
    LET r == TestOutcomesIter_next(it, m, n)
    IN IF ~r.some THEN FALSE
       ELSE IF r.tag = Failed THEN TRUE
       ELSE any_failed(r.it, m, n)

\* An exit code that is 1 whenever there is any outcome at all.
exit_code_any(o, m, n) ==
    IF TestOutcomesIter_next(TestOutcomes_iter(o), m, n).some THEN 1 ELSE 0

\* The code runner() passes to report_result.
exit_code(o, m, n) == IF any_failed(TestOutcomes_iter(o), m, n) THEN 1 ELSE 0

\* Everything test_outcomes.iter() yields.
RECURSIVE collect(_, _, _)
collect(it, m, n) ==
    LET r == TestOutcomesIter_next(it, m, n)
    IN IF ~r.some THEN <<>>
       ELSE << [test |-> r.test, tag |-> r.tag, data |-> r.data] >>
                \o collect(r.it, m, n)

passed == [tag |-> Passed, data |-> <<>>]
\* An Ignored outcome that is stored as Passed.
ignored_stored_passed == [tag |-> Passed, data |-> <<>>]

ignored == [tag |-> Ignored, data |-> <<>>]
failed(data) == [tag |-> Failed, data |-> data]

\* ui::panic::display(info): report_result(2), then loop {}.
display_returning(codes) == [reported |-> Append(codes, 2), pc |-> "entry"]

display(codes) == [reported |-> Append(codes, 2), pc |-> "halt"]

\* The panic handler: next = "reset" with the outcome it stored, "panic"
\* with the PanicInfo of a panic inside the handler, or "display".  checks
\* says whether the build has overflow checks.
panic(checks, i, init, t, m, ts) ==
    IF init /\ current_test(t).some
    THEN LET test == ts[current_test(t).test]
             c == matched(checks, contains(i, test.expected))
             outcome ==
                 CASE test.should_panic = "No" -> failed(PanicInfo_fmt(i))
                   [] test.should_panic = "Yes" -> passed
                   [] OTHER ->
                        IF c.found THEN passed
                        ELSE failed(DidNotContain_fmt(i.message, test.expected))
         IN IF test.should_panic = "YesWithMessage" /\ c.panic
            THEN [next |-> "panic", t |-> t, m |-> m,
                  info |-> c.info, outcome |-> passed]
            ELSE LET r == store_outcome(init, t, m, outcome)
                 IN [next |-> IF r.panic THEN "panic" ELSE "reset",
                     t |-> r.t, m |-> r.m, info |-> r.info, outcome |-> outcome]
    ELSE [next |-> "display", t |-> t, m |-> m, info |-> i, outcome |-> passed]

(***************************************************************************)
(* The program: main() calls runner(tests) after every boot and reset.     *)
(***************************************************************************)
\* A test: its ignore and should_panic attributes, the expected substring,
\* whether its body returns or panics, and the chunks and literalness of
\* the message it panics with.
Test(ignore, should_panic, expected, body, message, as_str) ==
    [ignore |-> ignore, should_panic |-> should_panic, expected |-> expected,
     body |-> body, message |-> message, as_str |-> as_str,
     modules |-> << "tests" >>]

Foo == << 102, 111, 111 >>
Bar == << 98, 97, 114 >>

\* #[ignore] fn ignored() { panic!("foo") }
\* #[ignore = "later"] #[should_panic] fn ignored_with_message() {}
\* fn passes() {}
\* fn fails() { panic!("foo") }
\* #[should_panic] fn did_not_panic() {}
\* #[should_panic(expected = "bar")] fn did_not_panic_with() {}
\* #[should_panic] fn panics() { panic!("foo") }
\* #[should_panic(expected = " bar ba")] fn message() { panic!("foo bar baz") }
\* #[should_panic(expected = "bar")] fn other_message() { panic!("foo") }
\* #[should_panic(expected = "abcd")] fn straddles() { panic!("{x}{y}") }
\*     with x = "ab", y = "cd"
\* #[should_panic(expected = "de")] fn late() { panic!("{x}{y}") }
\*     with x = "ab", y = "cde"
\* #[should_panic(expected = "xy")] fn later() { panic!("{x}{y}") }
\*     with x = "ab", y = "cxy"
Catalogue ==
    { Test("Yes", "No", <<>>, "panics", << Foo >>, TRUE),
      Test("YesWithMessage", "Yes", <<>>, "returns", <<>>, FALSE),
      Test("No", "No", <<>>, "returns", <<>>, FALSE),
      Test("No", "No", <<>>, "panics", << Foo >>, TRUE),
      Test("No", "Yes", <<>>, "returns", <<>>, FALSE),
      Test("No", "YesWithMessage", Bar, "returns", <<>>, FALSE),
      Test("No", "Yes", <<>>, "panics", << Foo >>, TRUE),
      Test("No", "YesWithMessage", << 32, 98, 97, 114, 32, 98, 97 >>, "panics",
           << << 102, 111, 111, 32, 98, 97, 114, 32, 98, 97, 122 >> >>, TRUE),
      Test("No", "YesWithMessage", Bar, "panics", << Foo >>, TRUE),
      Test("No", "YesWithMessage", << 97, 98, 99, 100 >>, "panics",
           << << 97, 98 >>, << 99, 100 >> >>, FALSE),
      Test("No", "YesWithMessage", << 100, 101 >>, "panics",
           << << 97, 98 >>, << 99, 100, 101 >> >>, FALSE),
      Test("No", "YesWithMessage", << 120, 121 >>, "panics",
           << << 97, 98 >>, << 99, 120, 121 >> >>, FALSE) }

\* Values of __ewram_data_end: room for most runs' messages but not for
\* all, and too little for three tags.
Starts == { EWRAM_MAX - RunnerFree, EWRAM_MAX - 2 }

\* A cold boot: the BIOS has cleared EWRAM, so the flag in .noinit reads
\* false, and nothing has been written above __ewram_data_end.
Init ==
    /\ \E n \in 0..MaxTests : tests \in [1..n -> Catalogue]
    /\ ewram_data_end \in Starts
    /\ INITIALIZED = FALSE
    /\ TESTS = UninitTests
    /\ mem = EmptyMemory(ewram_data_end)
    /\ pc = "entry"
    /\ reported = <<>>
    /\ view = NoView
    /\ iter = NoIter
    /\ yielded = <<>>
    /\ error_message = Uninit
    /\ decoded = NoDecode
    /\ last = NoCall
    /\ completed = <<>>
    /\ records = <<>>
    /\ started = <<>>
    /\ inflight = FALSE
    /\ info = NoInfo
    /\ runs = [i \in 1..Len(tests) |-> 0]
    /\ resets = 0
    /\ creations = 0
    /\ window = NoWindow
    /\ fresh = NoWindow
    /\ trip = NoTrip
    /\ slide = NoSlide
    /\ walker = NoWalker
    /\ walked = <<>>
    /\ earlier = NoEarlier
    /\ answer = NoAnswer
    /\ searcher = NoSearcher
    /\ fed = 0
    /\ STATE_ = STATE_static(ewram_data_end)
    /\ blocks = <<>>
    /\ IME = FALSE

\* What a store_outcome(outcome) and the reset after it leave, or the
\* panic of the store_outcome.
StoreAndReset(init, t, outcome) ==
    LET r == store_outcome(init, t, mem, outcome)
        z == reset(init, r.t, r.m)
    IN /\ completed' = IF t.waiting_for_completion /\ ~r.panic
                       THEN Append(completed, Completion(t, r, outcome))
                       ELSE completed
       /\ records' = records \o Finalized(t, r, outcome)
       /\ inflight' = FALSE
       /\ IF r.panic
          THEN /\ pc' = "panic"
               /\ info' = r.info
               /\ INITIALIZED' = init
               /\ TESTS' = r.t
               /\ mem' = r.m
               /\ resets' = resets
               /\ IME' = IME
          ELSE /\ pc' = "entry"
               /\ info' = NoInfo
               /\ INITIALIZED' = z.INITIALIZED
               /\ TESTS' = z.TESTS
               /\ mem' = z.mem
               /\ resets' = resets + 1
               /\ IME' = FALSE

\* runner(): Tests::new or start_test panics.
RunnerPanics ==
    /\ pc = "entry"
    /\ LET b == runner_init(INITIALIZED, TESTS, Len(tests), ewram_data_end)
           r == start_test(b.TESTS, Len(tests))
       IN /\ b.panic \/ r.panic
          /\ pc' = "panic"
          /\ info' = IF b.panic THEN TestsNewInfo(ewram_data_end, Len(tests))
                     ELSE StartTestInfo(b.TESTS.index)
          /\ INITIALIZED' = b.INITIALIZED
          /\ TESTS' = b.TESTS
          /\ creations' = creations + b.created
          /\ STATE_' = IF b.panic THEN STATE_
                      ELSE allocator_init(STATE_, data_cursor(b.TESTS))
          /\ blocks' = IF b.panic THEN blocks ELSE <<>>
    /\ UNCHANGED << tests, ewram_data_end, mem, reported, view, yielded,
                    completed, records, started, inflight, runs, resets >>
    /\ UNCHANGED harnessVars
    /\ UNCHANGED windowVars
    /\ UNCHANGED walkVars
    /\ UNCHANGED matchVars
    /\ UNCHANGED IME

\* runner(): the next test is ignored; its outcome is stored and the
\* system is reset.
RunnerIgnores ==
    /\ pc = "entry"
    /\ LET b == runner_init(INITIALIZED, TESTS, Len(tests), ewram_data_end)
           r == start_test(b.TESTS, Len(tests))
       IN /\ ~b.panic /\ ~r.panic /\ r.some
          /\ tests[r.test].ignore # "No"
          /\ started' = Append(started, r.test)
          /\ creations' = creations + b.created
          /\ STATE_' = allocator_init(STATE_, data_cursor(b.TESTS))
          /\ blocks' = <<>>
          /\ StoreAndReset(b.INITIALIZED, r.t, ignored)
    /\ UNCHANGED << tests, ewram_data_end, reported, view, yielded, runs >>
    /\ UNCHANGED harnessVars
    /\ UNCHANGED windowVars
    /\ UNCHANGED walkVars
    /\ UNCHANGED matchVars

\* runner(): the next test is started and its run() is called.
RunnerRuns ==
    /\ pc = "entry"
    /\ LET b == runner_init(INITIALIZED, TESTS, Len(tests), ewram_data_end)
           r == start_test(b.TESTS, Len(tests))
       IN /\ ~b.panic /\ ~r.panic /\ r.some
          /\ tests[r.test].ignore = "No"
          /\ pc' = "test"
          /\ INITIALIZED' = b.INITIALIZED
          /\ TESTS' = r.t
          /\ started' = Append(started, r.test)
          /\ inflight' = TRUE
          /\ runs' = [runs EXCEPT ![r.test] = @ + 1]
          /\ creations' = creations + b.created
          /\ STATE_' = allocator_init(STATE_, data_cursor(b.TESTS))
          /\ blocks' = <<>>
    /\ UNCHANGED << tests, ewram_data_end, mem, reported, view, yielded,
                    completed, records, info, resets >>
    /\ UNCHANGED harnessVars
    /\ UNCHANGED windowVars
    /\ UNCHANGED walkVars
    /\ UNCHANGED matchVars
    /\ UNCHANGED IME

\* A write to the interrupt master enable register that is lost.
IME_write_lost(value) == FALSE

\* IME.write(value): the interrupt master enable register takes the value.
IME_write(value) == value

\* runner(): no test is left; the outcomes are taken and interrupts are
\* enabled.
RunnerFinishes ==
    /\ pc = "entry"
    /\ LET b == runner_init(INITIALIZED, TESTS, Len(tests), ewram_data_end)
           r == start_test(b.TESTS, Len(tests))
           o == outcomes(r.t, Len(tests))
       IN /\ ~b.panic /\ ~r.panic /\ ~r.some
          /\ INITIALIZED' = b.INITIALIZED
          /\ TESTS' = r.t
          /\ creations' = creations + b.created
          /\ STATE_' = allocator_init(STATE_, data_cursor(b.TESTS))
          /\ blocks' = <<>>
          /\ IF o.panic
             THEN /\ pc' = "panic"
                  /\ info' = NotAllExecutedInfo
                  /\ UNCHANGED << view, reported >>
                  /\ IME' = IME
             ELSE /\ pc' = "report"
                  /\ view' = o.o
                  /\ IME' = IME_write(TRUE)
                  /\ UNCHANGED << reported, info >>
    /\ UNCHANGED << tests, ewram_data_end, mem, yielded, completed, records,
                    started, inflight, runs, resets >>
    /\ UNCHANGED harnessVars
    /\ UNCHANGED windowVars
    /\ UNCHANGED walkVars
    /\ UNCHANGED matchVars

\* runner(): the exit code is reported and ui::run is entered.
RunnerReports ==
    /\ pc = "report"
    /\ pc' = "ui"
    /\ reported' = Append(reported, exit_code(view, mem, Len(tests)))
    /\ UNCHANGED << tests, ewram_data_end, INITIALIZED, TESTS, mem, view,
                    yielded, completed, records, started, inflight, info,
                    runs, resets, creations, IME >>
    /\ UNCHANGED harnessVars
    /\ UNCHANGED windowVars
    /\ UNCHANGED walkVars
    /\ UNCHANGED matchVars
    /\ UNCHANGED allocVars

\* A match that stores Passed whenever the body returns.
returned_always_passed(test) == passed

\* The match on test.should_panic() after test.run() has returned.
returned(test) ==
    IF test.should_panic = "No" THEN passed
    ELSE failed(<< NoteDidNotPanic >>)

\* test.run() returns: the runner stores the outcome and resets.
TestReturns ==
    /\ pc = "test"
    /\ LET test == tests[TESTS.index + 1]
       IN /\ test.body = "returns"
          /\ StoreAndReset(INITIALIZED, TESTS, returned(test))
    /\ UNCHANGED << tests, ewram_data_end, reported, view, yielded, started,
                    runs, creations >>
    /\ UNCHANGED harnessVars
    /\ UNCHANGED windowVars
    /\ UNCHANGED walkVars
    /\ UNCHANGED matchVars
    /\ UNCHANGED allocVars

\* test.run() panics.
TestPanics ==
    /\ pc = "test"
    /\ LET test == tests[TESTS.index + 1]
       IN /\ test.body = "panics"
          /\ info' = PanicInfo(test.message, test.as_str, Location)
    /\ pc' = "panic"
    /\ UNCHANGED << tests, ewram_data_end, INITIALIZED, TESTS, mem, reported,
                    view, yielded, completed, records, started, inflight,
                    runs, resets, creations >>
    /\ UNCHANGED harnessVars
    /\ UNCHANGED windowVars
    /\ UNCHANGED walkVars
    /\ UNCHANGED matchVars
    /\ UNCHANGED allocVars
    /\ UNCHANGED IME

\* The panic handler with a test in flight: the outcome is stored and the
\* system reset, or the handler itself panics and is entered again.  A
\* handler entered again with what it was entered with never ends.
PanicInTest ==
    /\ pc = "panic"
    /\ \E h \in { panic(checks, info, INITIALIZED, TESTS, mem, tests) :
                    checks \in BOOLEAN } :
       LET z == reset(INITIALIZED, h.t, h.m)
       IN /\ h.next # "display"
          /\ IF h.next = "reset"
             THEN /\ pc' = "entry"
                  /\ info' = NoInfo
                  /\ INITIALIZED' = z.INITIALIZED
                  /\ TESTS' = z.TESTS
                  /\ mem' = z.mem
                  /\ resets' = resets + 1
                  /\ completed' = Append(completed,
                                         Completion(TESTS, h, h.outcome))
                  /\ records' = records \o
                         Finalized(TESTS, [panic |-> FALSE, t |-> h.t], h.outcome)
                  /\ inflight' = FALSE
                  /\ IME' = FALSE
             ELSE /\ pc' = IF h.info = info /\ h.t = TESTS /\ h.m = mem
                           THEN "overflow" ELSE "panic"
                  /\ info' = h.info
                  /\ TESTS' = h.t
                  /\ mem' = h.m
                  /\ inflight' = (inflight /\ h.t.waiting_for_completion)
                  /\ UNCHANGED << INITIALIZED, resets, completed, records,
                                  IME >>
    /\ UNCHANGED << tests, ewram_data_end, reported, view, yielded, started,
                    runs, creations >>
    /\ UNCHANGED harnessVars
    /\ UNCHANGED windowVars
    /\ UNCHANGED walkVars
    /\ UNCHANGED matchVars
    /\ UNCHANGED allocVars

\* The panic handler with no test in flight: ui::panic::display.
PanicOutsideTest ==
    /\ pc = "panic"
    /\ panic(TRUE, info, INITIALIZED, TESTS, mem, tests).next = "display"
    /\ pc' = display(reported).pc
    /\ reported' = display(reported).reported
    /\ UNCHANGED << tests, ewram_data_end, INITIALIZED, TESTS, mem, view,
                    yielded, completed, records, started, inflight, info,
                    runs, resets, creations >>
    /\ UNCHANGED harnessVars
    /\ UNCHANGED windowVars
    /\ UNCHANGED walkVars
    /\ UNCHANGED matchVars
    /\ UNCHANGED allocVars
    /\ IME' = FALSE

\* ui::run: the lengths of the pages are counted by iterating the outcomes.
UiRun ==
    /\ pc = "ui"
    /\ pc' = "browse"
    /\ yielded' = collect(TestOutcomes_iter(view), mem, Len(tests))
    /\ UNCHANGED << tests, ewram_data_end, INITIALIZED, TESTS, mem, reported,
                    view, completed, records, started, inflight, info, runs,
                    resets, creations >>
    /\ UNCHANGED harnessVars
    /\ UNCHANGED windowVars
    /\ UNCHANGED walkVars
    /\ UNCHANGED matchVars
    /\ UNCHANGED allocVars
    /\ UNCHANGED IME

\* An expect() in the user interface panics.
UiPanics ==
    /\ pc = "browse"
    /\ pc' = "panic"
    /\ info' = UiInfo
    /\ UNCHANGED << tests, ewram_data_end, INITIALIZED, TESTS, mem, reported,
                    view, yielded, completed, records, started, inflight,
                    runs, resets, creations >>
    /\ UNCHANGED harnessVars
    /\ UNCHANGED windowVars
    /\ UNCHANGED walkVars
    /\ UNCHANGED matchVars
    /\ UNCHANGED allocVars
    /\ UNCHANGED IME

Next ==
    \/ RunnerPanics
    \/ RunnerIgnores
    \/ RunnerRuns
    \/ RunnerFinishes
    \/ RunnerReports
    \/ TestReturns
    \/ TestPanics
    \/ PanicInTest
    \/ PanicOutsideTest
    \/ UiRun
    \/ UiPanics

Spec == Init /\ [][Next]_vars

\* The console before it is switched on: no ROM has been chosen yet.
Off ==
    /\ tests = <<>>
    /\ ewram_data_end = EWRAM_MAX - RunnerFree
    /\ INITIALIZED = FALSE
    /\ TESTS = UninitTests
    /\ mem = EmptyMemory(ewram_data_end)
    /\ pc = "off"
    /\ reported = <<>>
    /\ view = NoView
    /\ iter = NoIter
    /\ yielded = <<>>
    /\ error_message = Uninit
    /\ decoded = NoDecode
    /\ last = NoCall
    /\ completed = <<>>
    /\ records = <<>>
    /\ started = <<>>
    /\ inflight = FALSE
    /\ info = NoInfo
    /\ runs = <<>>
    /\ resets = 0
    /\ creations = 0
    /\ window = NoWindow
    /\ fresh = NoWindow
    /\ trip = NoTrip
    /\ slide = NoSlide
    /\ walker = NoWalker
    /\ walked = <<>>
    /\ earlier = NoEarlier
    /\ answer = NoAnswer
    /\ searcher = NoSearcher
    /\ fed = 0
    /\ STATE_ = STATE_static(ewram_data_end)
    /\ blocks = <<>>
    /\ IME = FALSE

\* The cold boot of a ROM: the state it leaves is a state of Init.
ColdBoot ==
    /\ pc = "off"
    /\ pc' = "entry"
    /\ \E n \in 0..MaxTests : tests' \in [1..n -> Catalogue]
    /\ ewram_data_end' \in Starts
    /\ mem' = EmptyMemory(ewram_data_end')
    /\ runs' = [i \in 1..Len(tests') |-> 0]
    /\ UNCHANGED << INITIALIZED, TESTS, reported, view, yielded, completed,
                    records, started, inflight, info, resets, creations, IME >>
    /\ UNCHANGED harnessVars
    /\ UNCHANGED windowVars
    /\ UNCHANGED walkVars
    /\ UNCHANGED matchVars
    /\ UNCHANGED allocVars

FairNext ==
    \/ ColdBoot
    \/ Next

\* The program is executing code: it is not switched off, not in the loop
\* of the browsing interface that waits for keys, not in the endless loop
\* of ui::panic::display, and its stack has not overflowed; it moves on to
\* another place.
Executing ==
    /\ pc \in { "off", "entry", "test", "panic", "report", "ui" }
    /\ pc' \in { "entry", "test", "panic", "report", "ui", "browse", "halt",
                 "overflow" }

\* The processor never stops: code that is executing moves on.  Every
\* state in which the program is executing has a step of FairNext, and the
\* panic handler is entered again at most twice in a row before it resets,
\* displays or overflows (HandlerMovesOn), so the condition asks for steps
\* the program has.
SpecFair == Off /\ [][FairNext]_vars /\ WF_pc(Executing)

(***************************************************************************)
(* The window over the outcomes (test.rs): what the user interface scrolls *)
(* through.  A pointer into the test list is the number of tests before    *)
(* it; the other pointers are addresses.                                   *)
(***************************************************************************)
\* The const generic SIZE of Window; the user interface uses 18.
SIZE == 2

\* How many tests the windowed ledgers hold at most, and how much room
\* they have above __ewram_data_end.
WindowTests == 4
WindowFree == 96

\* A subtraction that does not saturate.
plain_sub(a, b) == a - b

saturating_sub(a, b) == IF a >= b THEN a - b ELSE 0

starts_with(s, prefix) ==
    /\ Len(prefix) <= Len(s)
    /\ SubSeq(s, 1, Len(prefix)) = prefix

\* TestCase::modules of Test: the crate's name is dropped.
TestCase_modules(test) ==
    IF Len(test.modules) <= 1 THEN test.modules ELSE Tail(test.modules)

\* All, Failed, Passed and Ignored.
Filter_filter(filter, tag) ==
    CASE filter = "All" -> TRUE
      [] filter = "Failed" -> tag = Failed
      [] filter = "Passed" -> tag = Passed
      [] filter = "Ignored" -> tag = Ignored

ModuleFilter_filter(module_filter, test) ==
    starts_with(TestCase_modules(test), module_filter.module_path)

\* Filter::filter(&outcome) && module_filter.is_none_or(|f| f.filter(test)).
is_match(filter, module_filter, tag, test) ==
    /\ Filter_filter(filter, tag)
    /\ (module_filter.some => ModuleFilter_filter(module_filter, test))

\* FilteredTestOutcomesIter, run to its end: the items of the inner
\* iterator that pass; `first` is how many tests precede its slice.
FilteredTestOutcomesIter_collect(it, m, n, first, filter, module_filter, ts) ==
    LET all == collect(it, m, n)
        shifted == [i \in 1..Len(all) |->
                       [all[i] EXCEPT !.test = all[i].test + first]]
    IN SelectSeq(shifted,
                 LAMBDA item : is_match(filter, module_filter, item.tag,
                                        ts[item.test]))

\* How many elements a page holds: iter().count() in ui::run.
page_length(o, m, filter, module_filter, ts) ==
    Len(FilteredTestOutcomesIter_collect(TestOutcomes_iter(o), m, Len(ts), 0,
                                         filter, module_filter, ts))

RECURSIVE calculate_error_message_back_from(_, _, _, _, _, _, _, _, _, _)
calculate_error_message_back_from(error_messages, outcomes_, test_case, unfiltered_index, index, filter, module_filter, length, m, ts) ==
    IF index < SIZE /\ unfiltered_index < length
    THEN LET tag == read_u8(m, outcomes_)
             next == IF tag = Failed
                     THEN next_error_message(m, error_messages).error_message
                     ELSE error_messages
             hit == is_match(filter, module_filter, tag, ts[test_case + 1])
         IN calculate_error_message_back_from(
                next, outcomes_ + 1, test_case + 1, unfiltered_index + 1,
                IF hit THEN index + 1 ELSE index, filter, module_filter,
                length, m, ts)
    ELSE error_messages

calculate_error_message_back(error_messages, outcomes_, test_case, filter, module_filter, length, m, ts) ==
    calculate_error_message_back_from(error_messages, outcomes_, test_case,
                                      0, 0, filter, module_filter, length,
                                      m, ts)

\* A step outside the test list, or a byte that is no OutcomeVariant: the
\* read that follows is undefined.
out_of_list(w, index, tag) ==
    \/ index < 0
    \/ index >= w.length
    \/ tag \notin { Passed, Failed, Ignored }

\* A next_unfiltered that stops one position later.
next_unfiltered_late(w, m) ==
    IF w.filtered_index = saturating_sub(w.filtered_length, SIZE) + 1
    THEN [some |-> FALSE, ub |-> FALSE, tag |-> Uninit, w |-> w]
    ELSE LET outcome == w.outcome + 1
             tag == read_u8(m, outcome)
             back == IF tag = Failed
                     THEN next_error_message(
                              m, w.error_message_back).error_message
                     ELSE w.error_message_back
             front == IF read_u8(m, outcome - 1) = Failed
                      THEN next_error_message(
                               m, w.error_message_front).error_message
                      ELSE w.error_message_front
         IN [some |-> TRUE,
             ub |-> out_of_list(w, w.index + 1, tag),
             tag |-> tag,
             w |-> [w EXCEPT !.test_case = w.test_case + 1,
                             !.outcome = outcome,
                             !.error_message_back = back,
                             !.error_message_front = front,
                             !.index = w.index + 1]]

next_unfiltered(w, m) ==
    IF w.filtered_index = saturating_sub(w.filtered_length, SIZE)
    THEN [some |-> FALSE, ub |-> FALSE, tag |-> Uninit, w |-> w]
    ELSE LET outcome == w.outcome + 1
             tag == read_u8(m, outcome)
             back == IF tag = Failed
                     THEN next_error_message(
                              m, w.error_message_back).error_message
                     ELSE w.error_message_back
             front == IF read_u8(m, outcome - 1) = Failed
                      THEN next_error_message(
                               m, w.error_message_front).error_message
                      ELSE w.error_message_front
         IN [some |-> TRUE,
             ub |-> out_of_list(w, w.index + 1, tag),
             tag |-> tag,
             w |-> [w EXCEPT !.test_case = w.test_case + 1,
                             !.outcome = outcome,
                             !.error_message_back = back,
                             !.error_message_front = front,
                             !.index = w.index + 1]]

\* A prev_unfiltered that leaves error_message_front where it is.
prev_unfiltered_front_kept(w, m) ==
    IF w.filtered_index = 0
    THEN [some |-> FALSE, ub |-> FALSE, tag |-> Uninit, w |-> w]
    ELSE LET outcome == w.outcome - 1
             tag == read_u8(m, outcome)
             back == IF read_u8(m, outcome + SIZE) = Failed
                     THEN prev_error_message(
                              m, w.error_message_back).error_message
                     ELSE w.error_message_back
         IN [some |-> TRUE,
             ub |-> out_of_list(w, w.index - 1, tag),
             tag |-> tag,
             w |-> [w EXCEPT !.test_case = w.test_case - 1,
                             !.outcome = outcome,
                             !.error_message_back = back,
                             !.index = w.index - 1]]

prev_unfiltered(w, m) ==
    IF w.filtered_index = 0
    THEN [some |-> FALSE, ub |-> FALSE, tag |-> Uninit, w |-> w]
    ELSE LET outcome == w.outcome - 1
             tag == read_u8(m, outcome)
             front == IF tag = Failed
                      THEN prev_error_message(
                               m, w.error_message_front).error_message
                      ELSE w.error_message_front
             back == IF read_u8(m, outcome + SIZE) = Failed
                     THEN prev_error_message(
                              m, w.error_message_back).error_message
                     ELSE w.error_message_back
         IN [some |-> TRUE,
             ub |-> out_of_list(w, w.index - 1, tag),
             tag |-> tag,
             w |-> [w EXCEPT !.test_case = w.test_case - 1,
                             !.outcome = outcome,
                             !.error_message_front = front,
                             !.error_message_back = back,
                             !.index = w.index - 1]]

\* while let Some(outcome) = self.next_unfiltered() { if matches, stop }
RECURSIVE next_until_match(_, _, _)
next_until_match(w, m, ts) ==
    LET r == next_unfiltered(w, m)
    IN IF ~r.some \/ r.ub
       THEN r
       ELSE IF is_match(w.filter, w.module_filter, r.tag,
                        ts[r.w.test_case + 1])
            THEN r
            ELSE next_until_match(r.w, m, ts)

RECURSIVE prev_until_match(_, _, _)
prev_until_match(w, m, ts) ==
    LET r == prev_unfiltered(w, m)
    IN IF ~r.some \/ r.ub
       THEN r
       ELSE IF is_match(w.filter, w.module_filter, r.tag,
                        ts[r.w.test_case + 1])
            THEN r
            ELSE prev_until_match(r.w, m, ts)

\* The struct Window::new builds before it steps to the first match.
Window_struct(o, length, filter, module_filter, m, ts) ==
    [test_case |-> 0,
     outcome |-> o.outcomes,
     error_message_front |-> o.data,
     error_message_back |->
         calculate_error_message_back(o.data, o.outcomes, 0, filter,
                                      module_filter, Len(ts), m, ts),
     length |-> Len(ts),
     index |-> 0,
     filtered_length |-> length,
     filtered_index |-> 0,
     filter |-> filter,
     module_filter |-> module_filter]

\* Window::new(test_outcomes, length, module_filter) for the given Filter.
Window_new(o, length, filter, module_filter, m, ts) ==
    LET w == Window_struct(o, length, filter, module_filter, m, ts)
        r == next_until_match(w, m, ts)
    IN [ub |-> r.ub, w |-> r.w]

Window_next(w, m, ts) ==
    LET r == next_until_match(w, m, ts)
    IN IF r.ub
       THEN r
       ELSE IF r.some
            THEN [r EXCEPT !.w.filtered_index = w.filtered_index + 1]
            ELSE [r EXCEPT !.w = w]

Window_prev(w, m, ts) ==
    LET r == prev_until_match(w, m, ts)
    IN IF r.ub
       THEN r
       ELSE IF r.some
            THEN [r EXCEPT !.w.filtered_index = w.filtered_index - 1]
            ELSE [r EXCEPT !.w = w]

\* Window::iter(), run to its end.
Window_iter(w, m, ts) ==
    FilteredTestOutcomesIter_collect(
        [tests |-> 0, outcomes |-> w.outcome, data |-> w.error_message_front],
        m, w.length - w.index, w.test_case, w.filter, w.module_filter, ts)

\* What the page draws: iter().take(SIZE).
take(s, n) == SubSeq(s, 1, IF Len(s) < n THEN Len(s) ELSE n)

(***************************************************************************)
(* The window on its own: every test has run, ui::run has taken the        *)
(* outcomes, and a page's window is built and scrolled.                    *)
(***************************************************************************)
\* The message test i fails with: i bytes, written in one piece.
WindowText(i) == << [j \in 1..i |-> 96 + i] >>

WindowModules == { << "crate", "a" >>, << "crate", "a", "b" >> }

WindowFilters == { "All", "Failed", "Passed", "Ignored" }

WindowModuleFilters ==
    { NoModuleFilter, [some |-> TRUE, module_path |-> << "a", "b" >>] }

\* A test whose run leaves the given tag.
WindowTest(tag, i, modules) ==
    [ignore |-> IF tag = Ignored THEN "Yes" ELSE "No",
     should_panic |-> "No", expected |-> <<>>,
     body |-> IF tag = Passed THEN "returns" ELSE "panics",
     message |-> WindowText(i), as_str |-> FALSE, modules |-> modules]

WindowOutcome(tag, i) ==
    [tag |-> tag, data |-> IF tag = Failed THEN WindowText(i) ELSE <<>>]

\* The runner's loop from test i on: start_test, then the store of the
\* test's outcome, with the histories the calls leave.
RECURSIVE run_from(_, _, _, _)
run_from(i, tags, t, m) ==
    IF i > Len(tags)
    THEN [t |-> t, m |-> m, completed |-> <<>>, records |-> <<>>]
    ELSE LET s == start_test(t, Len(tags))
             c == complete_test(s.t, m, WindowOutcome(tags[i], i))
             rest == run_from(i + 1, tags, c.t, c.m)
         IN [rest EXCEPT
                !.completed =
                    << Completion(s.t, c, WindowOutcome(tags[i], i)) >> \o @,
                !.records = Finalized(s.t, c, WindowOutcome(tags[i], i)) \o @]

WindowInit ==
    /\ ewram_data_end = EWRAM_MAX - WindowFree
    /\ \E n \in 0..WindowTests :
         \E tags \in [1..n -> { Passed, Failed, Ignored }] :
           \E modules \in [1..n -> WindowModules] :
             \E r \in { run_from(1, tags, Tests_new(n, ewram_data_end).t,
                                 EmptyMemory(ewram_data_end)) } :
                /\ tests = [i \in 1..n |-> WindowTest(tags[i], i, modules[i])]
                /\ TESTS = r.t
                /\ mem = r.m
                /\ completed = r.completed
                /\ records = r.records
                /\ view = outcomes(r.t, n).o
                /\ reported = << exit_code(view, mem, n) >>
                /\ started = [i \in 1..n |-> i]
                /\ runs = [i \in 1..n |-> IF tags[i] = Ignored THEN 0 ELSE 1]
                /\ resets = n
    /\ INITIALIZED = TRUE
    /\ pc = "ui"
    /\ iter = NoIter
    /\ yielded = <<>>
    /\ error_message = Uninit
    /\ decoded = NoDecode
    /\ last = NoCall
    /\ inflight = FALSE
    /\ info = NoInfo
    /\ creations = 1
    /\ window = NoWindow
    /\ fresh = NoWindow
    /\ trip = NoTrip
    /\ slide = NoSlide
    /\ walker = NoWalker
    /\ walked = <<>>
    /\ earlier = NoEarlier
    /\ answer = NoAnswer
    /\ searcher = NoSearcher
    /\ fed = 0
    /\ STATE_ = STATE_static(ewram_data_end)
    /\ blocks = <<>>
    /\ IME = TRUE

\* What no window call changes.
ledgerVars == << tests, ewram_data_end, INITIALIZED, TESTS, mem, reported,
                 view, completed, records, started, inflight >>

\* Window::<Filter, SIZE>::new(&test_outcomes, length, module_filter), the
\* length counted as ui::run counts it.
WindowNew ==
    /\ pc = "ui"
    /\ \E filter \in WindowFilters, module_filter \in WindowModuleFilters :
         \E r \in { Window_new(view,
                               page_length(view, mem, filter, module_filter,
                                           tests),
                               filter, module_filter, mem, tests) } :
            /\ pc' = IF r.ub THEN "ub" ELSE "page"
            /\ window' = r.w
            /\ fresh' = r.w
            /\ slide' = [op |-> "new", some |-> FALSE, ub |-> r.ub,
                         tag |-> Uninit]
    /\ trip' = [nexts |-> 0, prevs |-> 0, there_and_back |-> TRUE]
    /\ yielded' = <<>>
    /\ UNCHANGED ledgerVars
    /\ UNCHANGED walkVars
    /\ UNCHANGED harnessVars
    /\ UNCHANGED runnerVars
    /\ UNCHANGED matchVars
    /\ UNCHANGED allocVars
    /\ UNCHANGED IME

\* window.next().
WindowNext ==
    /\ pc = "page"
    /\ \E r \in { Window_next(window, mem, tests) } :
         /\ pc' = IF r.ub THEN "ub" ELSE "page"
         /\ window' = r.w
         /\ slide' = [op |-> "next", some |-> r.some, ub |-> r.ub,
                      tag |-> r.tag]
         /\ trip' = IF ~r.some THEN trip
                    ELSE IF trip.there_and_back /\ trip.prevs = 0
                    THEN [trip EXCEPT !.nexts = @ + 1]
                    ELSE NoTrip
    /\ yielded' = <<>>
    /\ UNCHANGED fresh
    /\ UNCHANGED ledgerVars
    /\ UNCHANGED walkVars
    /\ UNCHANGED harnessVars
    /\ UNCHANGED runnerVars
    /\ UNCHANGED matchVars
    /\ UNCHANGED allocVars
    /\ UNCHANGED IME

\* window.prev().
WindowPrev ==
    /\ pc = "page"
    /\ \E r \in { Window_prev(window, mem, tests) } :
         /\ pc' = IF r.ub THEN "ub" ELSE "page"
         /\ window' = r.w
         /\ slide' = [op |-> "prev", some |-> r.some, ub |-> r.ub,
                      tag |-> r.tag]
         /\ trip' = IF ~r.some THEN trip
                    ELSE IF trip.there_and_back /\ trip.prevs < trip.nexts
                    THEN [trip EXCEPT !.prevs = @ + 1]
                    ELSE NoTrip
    /\ yielded' = <<>>
    /\ UNCHANGED fresh
    /\ UNCHANGED ledgerVars
    /\ UNCHANGED walkVars
    /\ UNCHANGED harnessVars
    /\ UNCHANGED runnerVars
    /\ UNCHANGED matchVars
    /\ UNCHANGED allocVars
    /\ UNCHANGED IME

\* window.iter(), run to its end; the iterator borrows the window, so no
\* next() or prev() comes between.
WindowIter ==
    /\ pc = "page"
    /\ yielded' = Window_iter(window, mem, tests)
    /\ slide' = [op |-> "iter", some |-> FALSE, ub |-> FALSE, tag |-> Uninit]
    /\ UNCHANGED << pc, window, fresh, trip >>
    /\ UNCHANGED ledgerVars
    /\ UNCHANGED walkVars
    /\ UNCHANGED harnessVars
    /\ UNCHANGED runnerVars
    /\ UNCHANGED matchVars
    /\ UNCHANGED allocVars
    /\ UNCHANGED IME

WindowStep ==
    \/ WindowNew
    \/ WindowNext
    \/ WindowPrev
    \/ WindowIter

SpecWindow == WindowInit /\ [][WindowStep]_vars

(***************************************************************************)
(* The module walker (test.rs): the module paths under a parent, for the   *)
(* module page of the user interface.                                      *)
(***************************************************************************)
\* A modules() that hands the walker of the walk before back out.
TestOutcomes_modules_stale(parent) == [walker EXCEPT !.parent = parent]

\* TestOutcomes::modules(parent).
TestOutcomes_modules(parent) ==
    [tests |-> 0, parent |-> parent,
     current |-> [some |-> FALSE, modules |-> <<>>, index |-> 0],
     previous |-> [some |-> FALSE, path |-> <<>>],
     returned_none |-> FALSE]

\* self.current.take().or_else(|| self.tests.next().map(..)): what the loop
\* works on, and the iterator the take and the next leave.
take_current(it, ts) ==
    IF it.current.some
    THEN [cur |-> it.current,
          it |-> [it EXCEPT !.current.some = FALSE]]
    ELSE IF it.tests < Len(ts)
    THEN [cur |-> [some |-> TRUE,
                   modules |-> TestCase_modules(ts[it.tests + 1]),
                   index |-> 0],
          it |-> [it EXCEPT !.tests = it.tests + 1]]
    ELSE [cur |-> [some |-> FALSE, modules |-> <<>>, index |-> 0], it |-> it]

\* The while let loop of TestOutcomesModules::next.
RECURSIVE walk(_, _)
walk(it, ts) ==
    LET t == take_current(it, ts)
        modules == t.cur.modules
        index == t.cur.index
    IN IF ~t.cur.some
       THEN [some |-> FALSE, item |-> <<>>, it |-> it]
       ELSE IF Len(modules) > index
               /\ starts_with(it.parent, SubSeq(modules, 1, index))
            THEN LET on == [t.it EXCEPT
                             !.current = [some |-> TRUE, modules |-> modules,
                                          index |-> index + 1]]
                     path == SubSeq(modules, 1, index + 1)
                 IN IF it.previous.some /\ starts_with(it.previous.path, path)
                    THEN walk(on, ts)
                    ELSE [some |-> TRUE, item |-> path, it |-> on]
            ELSE walk([t.it EXCEPT
                         !.current = [some |-> FALSE, modules |-> <<>>,
                                      index |-> 0],
                         !.previous = [some |-> TRUE,
                                       path |-> SubSeq(modules, 1, index)]],
                      ts)

\* A next that does not begin with the sentinel.
TestOutcomesModules_next_no_sentinel(it, ts) == walk(it, ts)

\* TestOutcomesModules::next.
TestOutcomesModules_next(it, ts) ==
    IF ~it.returned_none
    THEN [some |-> TRUE, item |-> << "--none--" >>,
          it |-> [it EXCEPT !.returned_none = TRUE]]
    ELSE walk(it, ts)

(***************************************************************************)
(* The module walker on its own: every test has run, and the module page   *)
(* walks the modules under a parent.                                       *)
(***************************************************************************)
\* module_path!() of a test, split at "::": the crate's root, a module, a
\* module in it, and a second module.
WalkModules ==
    { << "crate" >>, << "crate", "a" >>, << "crate", "a", "b" >>,
      << "crate", "c" >> }

WalkParents == { <<>>, << "a" >>, << "c" >>, << "a", "b" >> }

WalkInit ==
    /\ ewram_data_end = EWRAM_MAX - WindowFree
    /\ \E n \in 0..WindowTests :
         \E modules \in [1..n -> WalkModules] :
           \E r \in { run_from(1, [i \in 1..n |-> Passed],
                               Tests_new(n, ewram_data_end).t,
                               EmptyMemory(ewram_data_end)) } :
              /\ tests = [i \in 1..n |-> WindowTest(Passed, i, modules[i])]
              /\ TESTS = r.t
              /\ mem = r.m
              /\ completed = r.completed
              /\ records = r.records
              /\ view = outcomes(r.t, n).o
              /\ reported = << exit_code(view, mem, n) >>
              /\ started = [i \in 1..n |-> i]
              /\ runs = [i \in 1..n |-> 1]
              /\ resets = n
    /\ INITIALIZED = TRUE
    /\ pc = "ui"
    /\ iter = NoIter
    /\ yielded = <<>>
    /\ error_message = Uninit
    /\ decoded = NoDecode
    /\ last = NoCall
    /\ inflight = FALSE
    /\ info = NoInfo
    /\ creations = 1
    /\ window = NoWindow
    /\ fresh = NoWindow
    /\ trip = NoTrip
    /\ slide = NoSlide
    /\ walker = NoWalker
    /\ walked = <<>>
    /\ earlier = NoEarlier
    /\ answer = NoAnswer
    /\ searcher = NoSearcher
    /\ fed = 0
    /\ STATE_ = STATE_static(ewram_data_end)
    /\ blocks = <<>>
    /\ IME = TRUE

\* test_outcomes.modules(parent): a walk is begun, or begun again; a walk
\* that was walked to its end is remembered.
ModulesNew ==
    /\ pc \in { "ui", "modules" }
    /\ \E parent \in WalkParents : walker' = TestOutcomes_modules(parent)
    /\ pc' = "modules"
    /\ walked' = <<>>
    /\ earlier' = IF pc = "modules" /\ slide.op = "modules_next" /\ ~slide.some
                  THEN [some |-> TRUE, parent |-> walker.parent,
                        walked |-> walked]
                  ELSE earlier
    /\ slide' = [op |-> "modules", some |-> FALSE, ub |-> FALSE,
                 tag |-> Uninit]
    /\ UNCHANGED << yielded, window, fresh, trip >>
    /\ UNCHANGED ledgerVars
    /\ UNCHANGED harnessVars
    /\ UNCHANGED runnerVars
    /\ UNCHANGED matchVars
    /\ UNCHANGED allocVars
    /\ UNCHANGED IME

\* modules.next().
ModulesNext ==
    /\ pc = "modules"
    /\ \E r \in { TestOutcomesModules_next(walker, tests) } :
         /\ walker' = r.it
         /\ walked' = IF r.some THEN Append(walked, r.item) ELSE walked
         /\ earlier' = earlier
         /\ slide' = [op |-> "modules_next", some |-> r.some, ub |-> FALSE,
                      tag |-> Uninit]
    /\ UNCHANGED << pc, yielded, window, fresh, trip >>
    /\ UNCHANGED ledgerVars
    /\ UNCHANGED harnessVars
    /\ UNCHANGED runnerVars
    /\ UNCHANGED matchVars
    /\ UNCHANGED allocVars
    /\ UNCHANGED IME

WalkStep ==
    \/ ModulesNew
    \/ ModulesNext

SpecModules == WalkInit /\ [][WalkStep]_vars

\* The module page keeps calling next() until it has seen none returned:
\* while the last call did not return none, a call whose result differs
\* from the last one's is still to come.
ModulesCalling ==
    /\ pc = "modules"
    /\ ~(slide.op = "modules_next" /\ ~slide.some)
    /\ slide' \in { [op |-> "modules_next", some |-> b, ub |-> FALSE,
                     tag |-> Uninit] : b \in BOOLEAN }

SpecModulesFair == WalkInit /\ [][WalkStep]_vars /\ WF_slide(ModulesCalling)

(***************************************************************************)
(* The matcher on its own: a should_panic(expected = ..) test has          *)
(* panicked, and the panic handler asks whether the message contains the   *)
(* expected string.                                                        *)
(***************************************************************************)
\* How many pieces the formatting of a panic message writes at most.
MaxChunks == 3

\* The pieces: "", "a", "b" and the four texts of two such letters.
ChunkTexts ==
    { <<>> } \cup { << x >> : x \in { 97, 98 } }
        \cup { << x, y >> : x, y \in { 97, 98 } }

\* The expected strings: the pieces and the eight texts of three letters.
TargetTexts ==
    ChunkTexts \cup { << x, y, z >> : x, y, z \in { 97, 98 } }

\* A message is a literal (as_str() is Some) or is formatted in pieces.
ContainsInfos ==
    { PanicInfo(<< c >>, TRUE, Location) : c \in ChunkTexts }
        \cup UNION { { PanicInfo(m, FALSE, Location) :
                          m \in [1..n -> ChunkTexts] } : n \in 1..MaxChunks }

ContainsInit ==
    /\ ewram_data_end = EWRAM_MAX - RunnerFree
    /\ info \in ContainsInfos
    /\ \E substring \in TargetTexts :
         tests = << Test("No", "YesWithMessage", substring, "panics",
                         info.message, info.as_str) >>
    /\ INITIALIZED = TRUE
    /\ TESTS = start_test(Tests_new(1, ewram_data_end).t, 1).t
    /\ mem = EmptyMemory(ewram_data_end)
    /\ pc = "contains"
    /\ reported = <<>>
    /\ view = NoView
    /\ iter = NoIter
    /\ yielded = <<>>
    /\ error_message = Uninit
    /\ decoded = NoDecode
    /\ last = NoCall
    /\ completed = <<>>
    /\ records = <<>>
    /\ started = << 1 >>
    /\ inflight = TRUE
    /\ runs = << 1 >>
    /\ resets = 0
    /\ creations = 1
    /\ window = NoWindow
    /\ fresh = NoWindow
    /\ trip = NoTrip
    /\ slide = NoSlide
    /\ walker = NoWalker
    /\ walked = <<>>
    /\ earlier = NoEarlier
    /\ answer = NoAnswer
    /\ searcher = NoSearcher
    /\ fed = 0
    /\ STATE_ = STATE_static(ewram_data_end)
    /\ blocks = <<>>
    /\ IME = FALSE

\* contains(info, substring) in the panic handler; a failed bounds check
\* in it is a panic in the panic handler.
Contains ==
    /\ pc = "contains"
    /\ \E c \in { matched(checks, contains(info, tests[1].expected)) :
                    checks \in BOOLEAN } :
         /\ answer' = [called |-> TRUE, panic |-> c.panic, found |-> c.found]
         /\ pc' = IF c.panic THEN "panic" ELSE "contained"
    /\ UNCHANGED << searcher, fed >>
    /\ UNCHANGED allocVars
    /\ UNCHANGED << yielded, window, fresh, trip, slide >>
    /\ UNCHANGED ledgerVars
    /\ UNCHANGED walkVars
    /\ UNCHANGED harnessVars
    /\ UNCHANGED runnerVars
    /\ UNCHANGED IME

ContainsStep ==
    \/ Contains

SpecContains == ContainsInit /\ [][ContainsStep]_vars

(***************************************************************************)
(* The rolling hash on its own: a searcher is written the one piece of a   *)
(* formatted message, and is looked at after every byte.                   *)
(***************************************************************************)
\* How many characters a hashed message holds at most.
MaxChars == 3

\* UTF-8 characters: "a", "e", U+0000, U+00E9 (c3 a9), U+0434 (d0 b4) and
\* U+10FFFF (f4 8f bf bf).
HashChars ==
    { << 97 >>, << 101 >>, << 0 >>, << 195, 169 >>, << 208, 180 >>,
      << 244, 143, 191, 191 >> }

\* The messages: one to MaxChars characters.
HashTexts ==
    UNION { { Flatten(m) : m \in [1..n -> HashChars] } : n \in 1..MaxChars }

\* The expected strings: one character (1, 2 and 4 bytes), and the 3 bytes
\* of "a" and U+00E9.
HashTargets == HashChars \cup { << 97, 195, 169 >> }

HashInit ==
    /\ ewram_data_end = EWRAM_MAX - RunnerFree
    /\ \E m \in HashTexts : info = PanicInfo(<< m >>, FALSE, Location)
    /\ \E substring \in HashTargets :
         /\ tests = << Test("No", "YesWithMessage", substring, "panics",
                            info.message, info.as_str) >>
         /\ searcher = RabinKarpSearch_new(substring, info.message)
    /\ fed = 0
    /\ STATE_ = STATE_static(ewram_data_end)
    /\ blocks = <<>>
    /\ INITIALIZED = TRUE
    /\ TESTS = start_test(Tests_new(1, ewram_data_end).t, 1).t
    /\ mem = EmptyMemory(ewram_data_end)
    /\ pc = "hash"
    /\ reported = <<>>
    /\ view = NoView
    /\ iter = NoIter
    /\ yielded = <<>>
    /\ error_message = Uninit
    /\ decoded = NoDecode
    /\ last = NoCall
    /\ completed = <<>>
    /\ records = <<>>
    /\ started = << 1 >>
    /\ inflight = TRUE
    /\ runs = << 1 >>
    /\ resets = 0
    /\ creations = 1
    /\ window = NoWindow
    /\ fresh = NoWindow
    /\ trip = NoTrip
    /\ slide = NoSlide
    /\ walker = NoWalker
    /\ walked = <<>>
    /\ earlier = NoEarlier
    /\ answer = NoAnswer
    /\ IME = FALSE

\* One pass of the loops of RabinKarpSearch::write_str: the next byte of
\* the piece goes into the initial fill, or the hashes are compared, the
\* oldest byte is removed and the next byte added.  In a build with
\* overflow checks a subtraction below zero is a panic.
HashWrite ==
    /\ pc = "hash"
    /\ \E checks \in BOOLEAN :
         \E rk \in { RabinKarpSearch_scan(
                         searcher,
                         SubSeq(info.message[1], 1, fed + 1), fed + 1) } :
            /\ searcher' = rk
            /\ fed' = fed + 1
            /\ pc' = IF rk.panic \/ (checks /\ rk.underflow) THEN "panic"
                     ELSE IF rk.found \/ fed + 1 = Len(info.message[1])
                     THEN "contained"
                     ELSE "hash"
            /\ answer' = IF pc' = "hash" THEN answer
                         ELSE [called |-> TRUE, panic |-> pc' = "panic",
                               found |-> rk.found /\ pc' # "panic"]
    /\ UNCHANGED allocVars
    /\ UNCHANGED << yielded, window, fresh, trip, slide >>
    /\ UNCHANGED ledgerVars
    /\ UNCHANGED walkVars
    /\ UNCHANGED harnessVars
    /\ UNCHANGED runnerVars
    /\ UNCHANGED IME

HashStep ==
    \/ HashWrite

SpecHash == HashInit /\ [][HashStep]_vars

(***************************************************************************)
(* The bump allocator.                                                     *)
(***************************************************************************)
\* How many blocks are asked for after one initialisation, and the highest
\* of the small cursors State::alloc is tried on.
MaxAllocs == 2
MaxCursor == 40

null_mut == 0

\* Layout { size, align }: align is a power of two; size need not be a
\* multiple of it.
Layouts ==
    { [size |-> 0, align |-> 1],
      [size |-> 1, align |-> 1],
      [size |-> 3, align |-> 4],
      [size |-> 8, align |-> 4],
      [size |-> 8, align |-> 8],
      [size |-> 1073741824, align |-> 8] }

\* What a test body asks the global allocator for; the last is more than
\* is free once a message has been stored.
TestLayouts ==
    { [size |-> 3, align |-> 4],
      [size |-> 8, align |-> 4],
      [size |-> 240, align |-> 8] }

\* cursor & mask for mask = align - 1, align a power of two.
align_offset(cursor, align) == cursor % align

\* State::alloc(this, layout): the state it leaves and the pointer returned.
State_alloc(this, layout) ==
    LET offset == align_offset(this.cursor, layout.align)
        aligned == this.cursor - offset
        cursor == saturating_sub(aligned, layout.size)
    IN [this |-> [this EXCEPT !.cursor = cursor],
        ptr |-> IF cursor >= this.limit THEN cursor ELSE null_mut]

\* State::dealloc(this, ptr, layout).
State_dealloc(this, ptr, layout) ==
    IF ptr = this.cursor
    THEN [this EXCEPT !.cursor = @ + layout.size]
    ELSE this

\* One call of alloc; what was returned is kept with the cursor it was
\* asked at.
AllocCall(layouts) ==
    /\ Len(blocks) < MaxAllocs
    /\ \E layout \in layouts :
         LET r == State_alloc(STATE_, layout)
         IN /\ STATE_' = r.this
            /\ blocks' = Append(blocks, [ptr |-> r.ptr, layout |-> layout,
                                         before |-> STATE_.cursor,
                                         live |-> r.ptr # null_mut])

\* One call of dealloc, for a block that is still allocated.
DeallocCall ==
    \E k \in 1..Len(blocks) :
        /\ blocks[k].live
        /\ STATE_' = State_dealloc(STATE_, blocks[k].ptr, blocks[k].layout)
        /\ blocks' = [blocks EXCEPT ![k].live = FALSE]

\* State::alloc and State::dealloc on a state of their caller's making, as
\* the unit tests of the module call them.
StateCursors == 0..MaxCursor \cup { EWRAM_MAX - 1, EWRAM_MAX }
StateLimits == { 0, 2, 30, EWRAM_MAX - 256 }

StateInit ==
    /\ tests = <<>>
    /\ ewram_data_end = EWRAM_MAX - RunnerFree
    /\ INITIALIZED = FALSE
    /\ TESTS = UninitTests
    /\ mem = EmptyMemory(ewram_data_end)
    /\ pc = "state"
    /\ reported = <<>>
    /\ view = NoView
    /\ iter = NoIter
    /\ yielded = <<>>
    /\ error_message = Uninit
    /\ decoded = NoDecode
    /\ last = NoCall
    /\ completed = <<>>
    /\ records = <<>>
    /\ started = <<>>
    /\ inflight = FALSE
    /\ info = NoInfo
    /\ runs = <<>>
    /\ resets = 0
    /\ creations = 0
    /\ window = NoWindow
    /\ fresh = NoWindow
    /\ trip = NoTrip
    /\ slide = NoSlide
    /\ walker = NoWalker
    /\ walked = <<>>
    /\ earlier = NoEarlier
    /\ answer = NoAnswer
    /\ searcher = NoSearcher
    /\ fed = 0
    /\ STATE_ \in [cursor : StateCursors, limit : StateLimits]
    /\ blocks = <<>>
    /\ IME = FALSE

StateAlloc ==
    /\ pc = "state"
    /\ AllocCall(Layouts)
    /\ UNCHANGED << pc, yielded >>
    /\ UNCHANGED ledgerVars
    /\ UNCHANGED harnessVars
    /\ UNCHANGED runnerVars
    /\ UNCHANGED windowVars
    /\ UNCHANGED walkVars
    /\ UNCHANGED matchVars
    /\ UNCHANGED IME

StateDealloc ==
    /\ pc = "state"
    /\ DeallocCall
    /\ UNCHANGED << pc, yielded >>
    /\ UNCHANGED ledgerVars
    /\ UNCHANGED harnessVars
    /\ UNCHANGED runnerVars
    /\ UNCHANGED windowVars
    /\ UNCHANGED walkVars
    /\ UNCHANGED matchVars
    /\ UNCHANGED IME

StateStep ==
    \/ StateAlloc
    \/ StateDealloc

SpecState == StateInit /\ [][StateStep]_vars

\* A test body that is running asks the global allocator for a block, and
\* gives one back.
TestAlloc ==
    /\ pc = "test"
    /\ AllocCall(TestLayouts)
    /\ UNCHANGED << pc, yielded >>
    /\ UNCHANGED ledgerVars
    /\ UNCHANGED harnessVars
    /\ UNCHANGED runnerVars
    /\ UNCHANGED windowVars
    /\ UNCHANGED walkVars
    /\ UNCHANGED matchVars
    /\ UNCHANGED IME

TestDealloc ==
    /\ pc = "test"
    /\ DeallocCall
    /\ UNCHANGED << pc, yielded >>
    /\ UNCHANGED ledgerVars
    /\ UNCHANGED harnessVars
    /\ UNCHANGED runnerVars
    /\ UNCHANGED windowVars
    /\ UNCHANGED walkVars
    /\ UNCHANGED matchVars
    /\ UNCHANGED IME

\* The runner with test bodies that allocate.
AllocNext ==
    \/ Next
    \/ TestAlloc
    \/ TestDealloc

\* Two tests are enough for a test that runs after a record was written;
\* longer lists are kept where Tests::new finds no room for their tags.
AllocTests == 2

AllocInit ==
    /\ Init
    /\ Len(tests) > AllocTests => ewram_data_end = EWRAM_MAX - 2

SpecAlloc == AllocInit /\ [][AllocNext]_vars

(***************************************************************************)
(* Properties of the ledger.                                               *)
(***************************************************************************)
\* The first 4-byte-aligned address at or after a, said without the code's
\* arithmetic.
FirstAlignedFrom(a) == CHOOSE f \in a..(a + 3) : f % 4 = 0

\* C7: a record decoded forward from its header yields the bytes written
\* and leaves the pointer on the next record; decoded backward from just
\* past its footer it yields the same bytes and leaves the pointer on the
\* record's start; the read-back iterator yields the bytes written.
C7_DecodeRoundTrip ==
    /\ decoded.dir = "next" =>
         \E k \in 1..Len(records) :
            /\ records[k].start = decoded.from
            /\ decoded.str = records[k].str
            /\ error_message = records[k].end
    /\ decoded.dir = "prev" =>
         \E k \in 1..Len(records) :
            /\ records[k].end = decoded.from
            /\ decoded.str = records[k].str
            /\ error_message = records[k].start
    /\ \A i \in 1..Len(yielded) :
         yielded[i].tag = Failed => yielded[i].data = completed[i].data

\* The forward half of C7, which the code satisfies.
C7_ForwardHolds ==
    /\ decoded.dir = "next" =>
         \E k \in 1..Len(records) :
            /\ records[k].start = decoded.from
            /\ decoded.str = records[k].str
            /\ error_message = records[k].end
    /\ decoded.dir = "prev" =>
         \E k \in 1..Len(records) :
            /\ records[k].end = decoded.from
            /\ error_message = records[k].start
    /\ \A i \in 1..Len(yielded) :
         yielded[i].tag = Failed => yielded[i].data = completed[i].data

\* C8: every finalized record that started at s with L bytes written has L
\* in the header at s, the bytes at s + 4, L in the footer at the first
\* aligned address from s + 4 + L, and the append cursor was set to
\* footer + 4; record starts and the append cursor are 4-byte aligned.
C8_RecordLayout ==
    /\ \A k \in 1..Len(records) :
         LET s == records[k].start
             L == Len(records[k].str)
             footer == FirstAlignedFrom(s + 4 + L)
         IN /\ s % 4 = 0
            /\ read_usize(mem, s) = L
            /\ \A i \in 1..L : read_u8(mem, s + 4 + i - 1) = records[k].str[i]
            /\ read_usize(mem, footer) = L
            /\ records[k].end = footer + 4
            /\ k < Len(records) => records[k + 1].start = footer + 4
    /\ INITIALIZED =>
         /\ TESTS.data % 4 = 0
         /\ records # <<>> /\ pc # "fatal" => TESTS.data = records[Len(records)].end

\* "foo" was written and finalized: 3,0,0,0,'f','o','o',pad,3,0,0,0.
C8_Witness ==
    \E k \in 1..Len(records) :
        /\ records[k].str = <<102, 111, 111>>
        /\ [i \in 0..6 |-> mem[records[k].start + i]]
             = [i \in 0..6 |-> << 3, 0, 0, 0, 102, 111, 111 >>[i + 1]]
        /\ [i \in 8..11 |-> mem[records[k].start + i]]
             = [i \in 8..11 |-> << 3, 0, 0, 0 >>[i - 7]]
        /\ TESTS.data = records[k].start + 12

\* C9: a start_test while a test waits for completion, and a complete_test
\* while none does, are fatal and change neither the ledger nor memory; a
\* start_test returns a test only when none is in flight and a
\* complete_test takes effect only when one is.
C9_StrictAlternation ==
    [][ /\ (pc = "api" /\ last'.op = "start_test" /\ inflight) =>
             (last'.panic /\ pc' = "fatal" /\ TESTS' = TESTS /\ mem' = mem)
        /\ (pc = "api" /\ last'.op = "complete_test" /\ ~inflight) =>
             (last'.panic /\ pc' = "fatal" /\ TESTS' = TESTS /\ mem' = mem)
        /\ (pc = "api" /\ last'.op = "start_test" /\ last'.some) => ~inflight
        /\ (pc = "api" /\ last'.op = "complete_test" /\ TESTS' # TESTS) => inflight
      ]_vars

\* A start_test was rejected while test 2 was in flight.
C9_Witness ==
    /\ pc = "fatal"
    /\ last.op = "start_test"
    /\ last.panic
    /\ inflight
    /\ started = << 1, 2 >>

\* A complete_test was rejected with no test in flight.
C9_WitnessComplete ==
    /\ pc = "fatal"
    /\ last.op = "complete_test"
    /\ last.panic
    /\ ~TESTS.waiting_for_completion
    /\ TESTS.index = Len(completed)

\* C10: 0 <= index <= len(tests); waiting_for_completion is true exactly
\* when a started test has not been completed; then index < len(tests) and
\* current_test() is the test at index, and otherwise it is None.
C10_LedgerInvariant ==
    INITIALIZED =>
        /\ 0 <= TESTS.index /\ TESTS.index <= Len(tests)
        /\ TESTS.waiting_for_completion <=> inflight
        /\ TESTS.waiting_for_completion =>
             /\ TESTS.index < Len(tests)
             /\ started # <<>> /\ started[Len(started)] = TESTS.index + 1
             /\ current_test(TESTS) = [some |-> TRUE, test |-> TESTS.index + 1]
        /\ ~TESTS.waiting_for_completion =>
             current_test(TESTS) = [some |-> FALSE, test |-> 0]
        /\ last.op = "current_test" =>
             last.some = inflight /\ (last.some => last.test = TESTS.index + 1)

\* The last test of a full list is in flight.
C10_Witness ==
    /\ INITIALIZED
    /\ TESTS.waiting_for_completion
    /\ TESTS.index = MaxTests - 1
    /\ last.op = "current_test"

(***************************************************************************)
(* Properties of the program.                                              *)
(***************************************************************************)
\* The tag array as it lies in memory, for the tests completed so far.
Tag(i) == read_u8(mem, ewram_data_end + i - 1)

\* The number of records that decoding forward from a meets before end.
RECURSIVE CountRecords(_, _, _)
CountRecords(m, a, end) ==
    IF a >= end THEN 0
    ELSE 1 + CountRecords(m, next_error_message(m, a).error_message, end)

FailedCount(items) == Cardinality({ i \in 1..Len(items) : items[i].tag = Failed })

\* C1: once all N tests are completed, what the read-back iterator yields
\* is N items, the i-th for test i with the tag recorded for it; as many of
\* them are Failed as there are records in the message region, and each
\* Failed item carries the message written for its test.
C1_ReadBack ==
    (view # NoView /\ pc \notin { "report", "ui" }) =>
        /\ Len(yielded) = Len(tests)
        /\ Len(completed) = Len(tests)
        /\ \A i \in 1..Len(yielded) :
             /\ yielded[i].test = i
             /\ completed[i].test = i
             /\ yielded[i].tag = completed[i].tag
             /\ yielded[i].tag = Failed => yielded[i].data = completed[i].data
             /\ yielded[i].tag # Failed => yielded[i].data = <<>>
        /\ FailedCount(yielded) = Len(records)
        /\ FailedCount(yielded) = CountRecords(mem, view.data, TESTS.data)

\* Three tests read back, two of them Failed with different messages
\* around an Ignored one.
C1_Witness ==
    /\ pc = "browse"
    /\ Len(yielded) = MaxTests
    /\ yielded[1].tag = Failed
    /\ yielded[2].tag = Ignored
    /\ yielded[3].tag = Failed
    /\ Len(yielded[1].data) > Len(yielded[3].data)
    /\ Len(yielded[3].data) > 0

\* The bytes that hold what was recorded so far: the tags written and the
\* message region up to the append cursor.
Recorded(t) ==
    { a \in DOMAIN mem :
        \/ a >= ewram_data_end /\ a < t.outcomes
        \/ a >= align_forward(ewram_data_end + Len(tests)) /\ a < t.data }

\* C2: once the ledger exists it is never created again and what it has
\* recorded is never altered; the reset after a panicking test leaves the
\* index one further and no test in flight; the runner entered after a
\* reset starts the test at the index, or none when the index is past the
\* last test; the tests started are 1, 2, 3, ... with none started twice.
C2_ResumeAfterPanic ==
    [][ /\ INITIALIZED =>
             /\ INITIALIZED'
             /\ creations' = creations
             /\ \A a \in Recorded(TESTS) : mem'[a] = mem[a]
        /\ (pc = "panic" /\ pc' = "entry") =>
             /\ TESTS'.index = TESTS.index + 1
             /\ ~TESTS'.waiting_for_completion
             /\ resets' = resets + 1
        /\ (pc = "entry" /\ resets >= 1) =>
             IF TESTS.index < Len(tests)
             THEN started' = Append(started, TESTS.index + 1)
             ELSE started' = started /\ pc' = "report"
        /\ \A j \in 1..Len(started') : started'[j] = j
      ]_vars

\* The first test panicked and left a message; after the reset the second
\* test is running, on the ledger created once.
C2_Witness ==
    /\ pc = "test"
    /\ started = << 1, 2 >>
    /\ tests[1].ignore = "No" /\ tests[1].body = "panics"
    /\ resets = 1
    /\ creations = 1
    /\ Len(records) = 1

\* The tags a test may end with, by its attributes and what its body does.
AllowedTags(test) ==
    IF test.ignore # "No" THEN { Ignored }
    ELSE IF test.body = "returns"
         THEN IF test.should_panic = "No" THEN { Passed } ELSE { Failed }
         ELSE CASE test.should_panic = "No" -> { Failed }
                [] test.should_panic = "Yes" -> { Passed }
                [] OTHER -> { Passed, Failed }

\* C3: the tag of every completed test is one its own attributes and
\* behaviour allow, equal tests have equal tags wherever they stand in the
\* list, and every body has run at most once: once for a completed test
\* that is not ignored, never for an ignored one.
C3_TagsByTest ==
    /\ \A i \in 1..Len(tests) : runs[i] <= 1
    /\ INITIALIZED =>
         \A i \in 1..TESTS.index :
            /\ Tag(i) \in AllowedTags(tests[i])
            /\ \A j \in 1..TESTS.index : tests[i] = tests[j] => Tag(i) = Tag(j)
            /\ runs[i] = IF tests[i].ignore = "No" THEN 1 ELSE 0

\* A run of three tests and three resets ended with Passed, Ignored, Failed.
C3_Witness ==
    /\ pc = "browse"
    /\ resets = MaxTests
    /\ << Tag(1), Tag(2), Tag(3) >> = << Passed, Ignored, Failed >>
    /\ runs = << 1, 0, 1 >>

\* C4: for every test that panicked while in flight, one outcome was
\* recorded: Failed with the panic text for a test that must not panic,
\* Passed for one that must panic, and for one that must panic with a
\* message containing S, Passed if the message contains S and otherwise
\* Failed with a text naming the message and S; after the reset there are
\* as many outcomes as resets.
C4_PanicPolicy ==
    /\ \A k \in 1..Len(completed) :
         LET test == tests[completed[k].test]
             message == Flatten(test.message)
         IN /\ completed[k].test = k
            /\ (test.ignore = "No" /\ test.body = "panics") =>
                 CASE test.should_panic = "No" ->
                        /\ completed[k].tag = Failed
                        /\ str_contains(completed[k].data, message)
                   [] test.should_panic = "Yes" -> completed[k].tag = Passed
                   [] OTHER ->
                        IF str_contains(message, test.expected)
                        THEN completed[k].tag = Passed
                        ELSE /\ completed[k].tag = Failed
                             /\ str_contains(completed[k].data, message)
                             /\ str_contains(completed[k].data, test.expected)
    /\ pc = "entry" => resets = Len(completed)

\* C5: the first code reported when every test has an outcome is 0 if no
\* outcome is Failed and 1 otherwise; 2 is reported by the display of a
\* panic outside of tests and by nothing else.
C5_ExitCode ==
    /\ (view # NoView /\ pc # "report") =>
         /\ Len(completed) = Len(tests)
         /\ reported # <<>>
         /\ reported[1] = IF FailedCount(completed) = 0 THEN 0 ELSE 1
    /\ \A k \in 1..Len(reported) :
         reported[k] = 2 <=> (k = Len(reported) /\ pc = "halt")
    /\ pc = "halt" => reported # <<>>
    /\ ((view = NoView \/ pc = "report") /\ pc # "halt") => reported = <<>>

\* A full run with an Ignored and a Passed test and no Failed one reported 0.
C5_Witness ==
    /\ pc = "browse"
    /\ Len(completed) = MaxTests
    /\ \E i, j \in 1..MaxTests : completed[i].tag = Ignored /\ completed[j].tag = Passed
    /\ reported = << 0 >>

\* C6: the panic handler entered with no test waiting for completion
\* leaves the ledger, memory and the histories as they are, performs no
\* reset, reports 2 and ends in the display, which is never left.
C6_PanicOutsideTest ==
    [][ /\ (pc = "panic" /\ ~(INITIALIZED /\ TESTS.waiting_for_completion)) =>
             /\ pc' = "halt"
             /\ reported' = Append(reported, 2)
             /\ UNCHANGED << INITIALIZED, TESTS, mem, completed, records,
                             started, resets, creations >>
        /\ pc = "halt" => pc' = "halt"
      ]_vars

\* The display was reached after all tests had finished.
C6_Witness ==
    /\ pc = "halt"
    /\ view # NoView
    /\ Len(completed) = MaxTests
    /\ TESTS.index = MaxTests

\* The display was reached before the ledger was initialised.
C6_WitnessBoot ==
    /\ pc = "halt"
    /\ ~INITIALIZED
    /\ reported = << 2 >>

\* The address of the tag slot of test i.
Slot(i) == ewram_data_end + i - 1

\* C11: a step writes at most the tag slot of the next test to complete,
\* with every earlier slot written and every later one not; a slot once
\* written keeps its value through every later step, and the bytes of the
\* records finalized so far keep theirs.
C11_TagWrittenOnce ==
    [][ /\ \A i \in 1..Len(tests) :
             /\ mem[Slot(i)] # Uninit => mem'[Slot(i)] = mem[Slot(i)]
             /\ mem'[Slot(i)] # mem[Slot(i)] =>
                  /\ i = Len(completed) + 1
                  /\ \A j \in 1..(i - 1) : mem[Slot(j)] # Uninit
                  /\ \A j \in (i + 1)..Len(tests) : mem'[Slot(j)] = Uninit
        /\ \A k \in 1..Len(records) :
             \A a \in records[k].start..(records[k].end - 1) : mem'[a] = mem[a]
      ]_vars

\* Three slots were written over three resets, the first by the panic
\* handler with a message, and hold Failed, Passed, Ignored.
C11_Witness ==
    /\ pc = "browse"
    /\ resets = MaxTests
    /\ << mem[Slot(1)], mem[Slot(2)], mem[Slot(3)] >> = << Failed, Passed, Ignored >>
    /\ tests[1].body = "panics"
    /\ Len(records) = 1

Bit(flags, b) == (flags \div b) % 2

\* C13: the flags reset() passes are 0xFC; no builder method changes bit 0
\* (EWRAM) or bit 1 (IWRAM) of any flags value; and after every reset the
\* flag is set, the ledger fields stand where the completions left them,
\* and the tags and records in memory are the ones recorded.
C13_ResetPreserves ==
    [][ /\ reset_flags = 252
        /\ \A f \in 0..255 :
             \A g \in { with_palette(f), with_vram(f), with_oam(f),
                        with_sio_registers(f), with_sound_registers(f),
                        with_other_registers(f) } :
                Bit(g, 1) = Bit(f, 1) /\ Bit(g, 2) = Bit(f, 2)
        /\ resets' = resets + 1 =>
             /\ INITIALIZED'
             /\ ~TESTS'.waiting_for_completion
             /\ TESTS'.index = Len(completed')
             /\ TESTS'.outcomes = ewram_data_end + Len(completed')
             /\ TESTS'.data = IF records' = <<>>
                              THEN align_forward(ewram_data_end + Len(tests))
                              ELSE records'[Len(records')].end
             /\ \A i \in 1..Len(completed') :
                  mem'[ewram_data_end + i - 1] = completed'[i].tag
             /\ \A k \in 1..Len(records') :
                  /\ read_usize(mem', records'[k].start) = Len(records'[k].str)
                  /\ from_raw_parts(mem', records'[k].start + 4,
                                    Len(records'[k].str)) = records'[k].str
      ]_vars

\* Three resets: after a test that returned, after an ignored one and
\* after one that panicked.
C13_Witness ==
    /\ pc = "entry"
    /\ resets = 3
    /\ tests[1].ignore = "No" /\ tests[1].body = "returns"
    /\ tests[2].ignore # "No"
    /\ tests[3].ignore = "No" /\ tests[3].body = "panics"
    /\ tests[3].should_panic = "No"
    /\ Len(records) >= 1

\* Where the record after the finalized ones starts.
NextRecordStart ==
    IF records = <<>> THEN align_forward(ewram_data_end + Len(tests))
    ELSE records[Len(records)].end

\* A complete_test wrote its tag and then found no room for its message.
RegionFull == INITIALIZED /\ TESTS.outcomes = ewram_data_end + TESTS.index + 1

\* C14: when complete_test finds no room for a Failed message the failure
\* is fatal (the handler ends in the display, nothing is stored elsewhere)
\* and the writer was still finalized: a header and an equal footer were
\* written and the append cursor stands past the record.
C14_FullRegionFinalized ==
    RegionFull =>
        /\ pc \in { "panic", "halt" }
        /\ Len(completed) = TESTS.index
        /\ TESTS.data >= NextRecordStart + 8
        /\ read_usize(mem, NextRecordStart) # Uninit
        /\ read_usize(mem, TESTS.data - 4) = read_usize(mem, NextRecordStart)

\* The fatal half of C14, which the code satisfies.
C14_FullRegionFatal ==
    RegionFull =>
        /\ pc \in { "panic", "halt" }
        /\ Len(completed) = TESTS.index
        /\ TESTS.data = NextRecordStart
        /\ read_usize(mem, NextRecordStart) = Uninit

\* C15: Tests::new is fatal exactly when the first aligned address at or
\* after start + len(tests) is above 0x0204_0000; otherwise the ledger has
\* its tag array at start, its message region at that aligned address,
\* index 0 and no test waiting.
C15_NewPlacement ==
    /\ EWRAM_MAX = 2 * 16777216 + 4 * 65536
    /\ last.op = "new" =>
         LET region == FirstAlignedFrom(ewram_data_end + Len(tests))
         IN IF region > EWRAM_MAX
            THEN pc = "fatal" /\ ~INITIALIZED /\ TESTS = UninitTests
            ELSE /\ pc = "api"
                 /\ INITIALIZED
                 /\ TESTS = [index |-> 0, waiting_for_completion |-> FALSE,
                             outcomes |-> ewram_data_end, data |-> region]

\* A ledger whose message region starts exactly at the top was created.
C15_Witness ==
    /\ last.op = "new"
    /\ pc = "api"
    /\ Len(tests) = 2
    /\ TESTS.data = EWRAM_MAX

\* Construction was fatal for a tag array that does not fit.
C15_WitnessFatal ==
    /\ last.op = "new"
    /\ pc = "fatal"
    /\ ewram_data_end + Len(tests) > EWRAM_MAX

\* C16: Tests::outcomes() is fatal exactly when index < len(tests); when
\* it succeeds index = len(tests) and the tag array and message region it
\* returns start where Tests::new placed them.
C16_OutcomesEntry ==
    last.op = "outcomes" =>
        /\ pc = "fatal" <=> TESTS.index < Len(tests)
        /\ pc \in { "iter", "decode" } <=> TESTS.index = Len(tests)
        /\ pc \in { "iter", "decode" } =>
             /\ view.outcomes = ewram_data_end
             /\ view.outcomes = Tests_new(Len(tests), ewram_data_end).t.outcomes
             /\ view.data = FirstAlignedFrom(ewram_data_end + Len(tests))
             /\ view.data = Tests_new(Len(tests), ewram_data_end).t.data

\* outcomes() succeeded on a full ledger that holds messages.
C16_Witness ==
    /\ last.op = "outcomes"
    /\ pc = "iter"
    /\ Len(tests) = MaxTests
    /\ Len(records) >= 2

\* outcomes() was fatal with one test left.
C16_WitnessFatal ==
    /\ last.op = "outcomes"
    /\ pc = "fatal"
    /\ TESTS.index = Len(tests) - 1

\* The finalized records that hold no bytes.
ZeroLength == { k \in 1..Len(records) : records[k].str = <<>> }

\* The layout of the zero-length records: header 0 and footer 0 in
\* adjacent words and the cursor 8 further.
ZeroLengthLayout ==
    \A k \in ZeroLength :
        /\ read_usize(mem, records[k].start) = 0
        /\ read_usize(mem, records[k].start + 4) = 0
        /\ records[k].end = records[k].start + 8
        /\ k = Len(records) /\ pc # "fatal" => TESTS.data = records[k].start + 8

\* C17: in a ledger that holds a zero-length record, that record is header
\* 0, footer 0 and 8 bytes long, and every record, the zero-length one and
\* those before and after it, decodes to the bytes written for it and to
\* the right position, forward and backward.
C17_ZeroLengthRecord ==
    ZeroLength # {} =>
        /\ ZeroLengthLayout
        /\ decoded.dir = "next" =>
             \E k \in 1..Len(records) :
                /\ records[k].start = decoded.from
                /\ decoded.str = records[k].str
                /\ error_message = records[k].end
        /\ decoded.dir = "prev" =>
             \E k \in 1..Len(records) :
                /\ records[k].end = decoded.from
                /\ decoded.str = records[k].str
                /\ error_message = records[k].start

\* What the code satisfies of C17: the zero-length record itself decodes
\* as the empty message in both directions, every record decodes forward,
\* and decoding backward moves to the start of the record behind.
C17_ZeroLengthHolds ==
    ZeroLength # {} =>
        /\ ZeroLengthLayout
        /\ decoded.dir = "next" =>
             \E k \in 1..Len(records) :
                /\ records[k].start = decoded.from
                /\ decoded.str = records[k].str
                /\ error_message = records[k].end
        /\ decoded.dir = "prev" =>
             \E k \in 1..Len(records) :
                /\ records[k].end = decoded.from
                /\ k \in ZeroLength => decoded.str = <<>>
                /\ Len(records[k].str) % 4 = 0 => decoded.str = records[k].str
                /\ error_message = records[k].start

\* A zero-length record between two others was decoded backward.
C17_ZeroLengthReached ==
    /\ Len(records) = 3
    /\ ZeroLength = { 2 }
    /\ decoded.dir = "prev"
    /\ decoded.from = records[2].end
    /\ decoded.str = <<>>


(***************************************************************************)
(* Properties of the window.                                               *)
(***************************************************************************)
\* The items of the full read-back iterator that satisfy the window's
\* predicate and lie under its module prefix.
Matching ==
    SelectSeq(collect(TestOutcomes_iter(view), mem, Len(tests)),
              LAMBDA item :
                  /\ Filter_filter(window.filter, item.tag)
                  /\ (window.module_filter.some =>
                         starts_with(TestCase_modules(tests[item.test]),
                                     window.module_filter.module_path)))

\* iter() has just been run on a window no call has moved since Window::new.
FreshIter ==
    /\ pc = "page"
    /\ slide.op = "iter"
    /\ window = fresh
    /\ trip = [nexts |-> 0, prevs |-> 0, there_and_back |-> TRUE]

\* C18: what iter() yields on a freshly constructed window is the
\* subsequence of the full read-back iterator that matches the predicate
\* and the module prefix, however many elements match.
C18_FreshWindowIter ==
    FreshIter => yielded = Matching

\* The same where at most SIZE elements match or the first test does not.
C18_FreshWindowHolds ==
    (/\ FreshIter
     /\ \/ Len(Matching) <= SIZE
        \/ Matching[1].test /= 1)
        => yielded = Matching

\* More than SIZE elements match, the first test among them.
C18_FirstMatches ==
    /\ FreshIter
    /\ Len(Matching) > SIZE
    /\ Matching[1].test = 1

\* The fresh window starts at the second matching element.
C18_FirstSkipped ==
    C18_FirstMatches => yielded = Tail(Matching)


\* The window is at its last position, or at position zero.
AtLast == window.filtered_index = saturating_sub(window.filtered_length, SIZE)
AtZero == window.filtered_index = 0

\* C19: next() on a window at its last position returns none and leaves
\* every field of the window as it was, and so does prev() on a window at
\* position zero.
C19_EndsAreNoOps ==
    [][/\ (WindowNext /\ AtLast) =>
            (~slide'.some /\ ~slide'.ub /\ window' = window /\ pc' = pc)
       /\ (WindowPrev /\ AtZero) =>
            (~slide'.some /\ ~slide'.ub /\ window' = window /\ pc' = pc)]_vars

\* next() has returned none on a window that was scrolled to its last
\* position.
C19_Witness ==
    /\ pc = "page"
    /\ slide.op = "next"
    /\ ~slide.some
    /\ AtLast
    /\ window.filtered_index > 0

\* prev() has returned none on a window that was scrolled back to zero.
C19_WitnessPrev ==
    /\ pc = "page"
    /\ slide.op = "prev"
    /\ ~slide.some
    /\ AtZero
    /\ trip.prevs > 0


\* The calls since Window::new were k > 0 times next() and then k times
\* prev(), each returning an element, and iter() has been run since.
ThereAndBack ==
    /\ pc = "page"
    /\ slide.op = "iter"
    /\ trip.there_and_back
    /\ trip.nexts > 0
    /\ trip.prevs = trip.nexts

\* C20: after k next() calls and then k prev() calls on a fresh window,
\* the first SIZE elements of iter() are the ones the fresh window showed.
C20_ThereAndBack ==
    ThereAndBack =>
        take(yielded, SIZE) = take(Window_iter(fresh, mem, tests), SIZE)

\* Two steps down and two steps back up, past a Failed element.
C20_Witness ==
    /\ ThereAndBack
    /\ trip.nexts >= 2
    /\ window.filtered_length >= SIZE + 2
    /\ \E i \in 1..Len(yielded) : yielded[i].tag = Failed


\* C21: a window over no matching element shows nothing, and a window over
\* SIZE or fewer matching elements shows them all; in both next() and
\* prev() return none and the window stays as Window::new left it.
C21_SmallPages ==
    (pc \in { "page", "ub" } /\ Len(Matching) <= SIZE) =>
        /\ pc = "page"
        /\ window = fresh
        /\ slide.op \in { "next", "prev" } => ~slide.some
        /\ take(Window_iter(window, mem, tests), SIZE) = Matching
        /\ slide.op = "iter" => yielded = Matching

\* next() was called on a page of exactly SIZE elements that skips tests.
C21_Witness ==
    /\ pc = "page"
    /\ Len(Matching) = SIZE
    /\ Len(tests) > SIZE
    /\ Matching[1].test /= 1
    /\ slide.op = "next"

\* prev() was called on a page without elements, over a list with tests.
C21_WitnessEmpty ==
    /\ pc = "page"
    /\ Len(Matching) = 0
    /\ Len(tests) > 0
    /\ slide.op = "prev"


(***************************************************************************)
(* Properties of the module walker.                                        *)
(***************************************************************************)
Sentinel == << "--none--" >>

Range(q) == { q[i] : i \in 1..Len(q) }

\* The prefixes of one test's module path that lie under the parent,
\* shortest first: a prefix without its last segment is a prefix of the
\* parent.
Under(parent, modules) ==
    LET lengths == { k \in 1..Len(modules) :
                       starts_with(parent, SubSeq(modules, 1, k - 1)) }
    IN [k \in 1..Cardinality(lengths) |-> SubSeq(modules, 1, k)]

\* The paths under the parent from test i on, each at its first place in
\* declaration order; seen holds the ones placed before.
RECURSIVE FirstSeen(_, _, _, _)
FirstSeen(i, parent, ts, seen) ==
    IF i > Len(ts)
    THEN <<>>
    ELSE LET new == SelectSeq(Under(parent, TestCase_modules(ts[i])),
                              LAMBDA path : path \notin seen)
         IN new \o FirstSeen(i + 1, parent, ts, seen \cup Range(new))

\* The walk has returned none.
WalkDone == pc = "modules" /\ slide.op = "modules_next" /\ ~slide.some

\* C22: after the sentinel the walker returns the module paths under the
\* parent, each once, at the place of its first test in declaration order.
C22_EachPathOnce ==
    pc = "modules" =>
        LET all == << Sentinel >> \o FirstSeen(1, walker.parent, tests, {})
        IN /\ Len(walked) <= Len(all)
           /\ walked = SubSeq(all, 1, Len(walked))
           /\ WalkDone => walked = all

\* The walker returns every path under the parent, and only those.
C22_EveryPath ==
    WalkDone =>
        Range(walked) =
            { Sentinel } \cup Range(FirstSeen(1, walker.parent, tests, {}))

\* A path is returned a second time.
C22_Repeated ==
    /\ pc = "modules"
    /\ \E i, j \in 1..Len(walked) : i < j /\ walked[i] = walked[j]


(***************************************************************************)
(* Properties of the matcher.                                              *)
(***************************************************************************)
\* C23: contains() returns, and returns true exactly when the expected
\* string occurs in the concatenation of the pieces of the message; the
\* empty string always does and a longer string than the message never.
C23_ContainsIffSubstring ==
    pc \in { "contained", "panic" } =>
        /\ ~answer.panic
        /\ answer.found =
               str_contains(Flatten(info.message), tests[1].expected)

\* The same for a literal message, for a message written in one piece,
\* for the empty expected string, and for one longer than the message.
C23_OnePieceHolds ==
    (/\ pc \in { "contained", "panic" }
     /\ \/ info.as_str
        \/ Len(info.message) = 1
        \/ tests[1].expected = <<>>
        \/ Len(tests[1].expected) > Len(Flatten(info.message)))
        => /\ ~answer.panic
           /\ answer.found =
                  str_contains(Flatten(info.message), tests[1].expected)

\* The message contains the expected string and contains() says no.
C23_Missed ==
    /\ pc = "contained"
    /\ ~answer.found
    /\ str_contains(Flatten(info.message), tests[1].expected)

\* contains() panics on a failed bounds check.
C23_Aborted ==
    /\ pc = "panic"
    /\ answer.panic

\* contains() never says yes when the message lacks the expected string.
C23_NoFalseYes ==
    (pc = "contained" /\ answer.found) =>
        str_contains(Flatten(info.message), tests[1].expected)


\* C24: the body of an ignored test is never run and the outcome recorded
\* for it is Ignored; the step that records it resets the system, and the
\* entry after the reset goes on with the test after it.
C24_IgnoredNeverRun ==
    /\ [](\A i \in 1..Len(tests) :
            tests[i].ignore # "No" =>
                /\ runs[i] = 0
                /\ (INITIALIZED /\ i <= TESTS.index) => Tag(i) = Ignored)
    /\ [][RunnerIgnores =>
            /\ pc' = "entry"
            /\ resets' = resets + 1
            /\ INITIALIZED'
            /\ ~TESTS'.waiting_for_completion
            /\ TESTS'.index = Len(started')
            /\ read_u8(mem', ewram_data_end + TESTS'.index - 1) = Ignored
            /\ runs' = runs]_vars
    /\ [][(pc = "entry" /\ resets > 0 /\ TESTS.index < Len(tests)) =>
            /\ started' = Append(started, TESTS.index + 1)
            /\ tests[TESTS.index + 1].ignore = "No" =>
                  runs'[TESTS.index + 1] = 1]_vars

\* Both kinds of ignored test were recorded and the test after them ran.
C24_Witness ==
    /\ pc = "browse"
    /\ Len(tests) = 3
    /\ tests[1].ignore = "Yes"
    /\ tests[2].ignore = "YesWithMessage"
    /\ tests[3].ignore = "No"
    /\ << Tag(1), Tag(2) >> = << Ignored, Ignored >>
    /\ runs = << 0, 0, 1 >>
    /\ resets = 3

(***************************************************************************)
(* The final signal of the runner                                          *)
(***************************************************************************)
\* A step that emits the pass/fail signal: a code 0 or 1 is reported.
Signals ==
    /\ Len(reported') = Len(reported) + 1
    /\ reported'[Len(reported')] \in { 0, 1 }

\* C25: the pass/fail signal is emitted only when every test has a
\* recorded outcome (the index equals the number of tests) and interrupts
\* are enabled, and the browsing interface is entered only after it; the
\* boot that emits it is one in which start_test returned no test.
C25_SignalAfterAll ==
    /\ [][Signals =>
            /\ pc = "report" /\ pc' = "ui"
            /\ IME
            /\ TESTS.index = Len(tests)
            /\ ~TESTS.waiting_for_completion
            /\ Len(completed) = Len(tests)
            /\ \A i \in 1..Len(tests) : Tag(i) \in { Passed, Failed, Ignored }
            /\ reported = <<>>]_vars
    /\ [][(pc' = "report" /\ pc # "report") =>
            /\ pc = "entry"
            /\ started' = started
            /\ resets = Len(started)]_vars
    /\ [][started' # started => (~Signals /\ pc' \in { "test", "entry", "panic" })]_vars
    /\ [][pc = "test" => (~Signals /\ pc' \in { "entry", "panic" })]_vars
    /\ [](pc \in { "ui", "browse" } => (reported # <<>> /\ reported[1] \in { 0, 1 }))

\* The signal 1 was emitted after three tests had been recorded over three
\* resets, and the user interface has been entered.
C25_Witness ==
    /\ pc = "browse"
    /\ reported = << 1 >>
    /\ IME
    /\ Len(tests) = MaxTests
    /\ resets = MaxTests
    /\ Len(completed) = MaxTests

(***************************************************************************)
(* The single writer of the ledger                                         *)
(***************************************************************************)
\* The tag slots that have been written.
Tagged(m) == { i \in 1..Len(tests) : m[Slot(i)] # Uninit }

\* A step in which a store_outcome panicked after it had written the tag.
PanicsWhileRecording ==
    /\ pc' = "panic"
    /\ mem' # mem

\* C26: the ledger has one writer at a time.  The panic handler records an
\* outcome only for the test that waits for completion, and resets; a
\* panic raised while an outcome is being recorded finds no test waiting
\* and is recorded for no test; no slot is tagged twice and nothing is
\* written after a record was left open.
C26_SingleWriter ==
    /\ [][mem' # mem =>
            /\ pc \in { "entry", "test", "panic" }
            /\ pc \in { "test", "panic" } => (TESTS.waiting_for_completion /\ inflight)
            /\ ~TESTS'.waiting_for_completion
            /\ Tagged(mem') = Tagged(mem) \cup { Len(completed) + 1 }
            /\ Len(completed) + 1 \notin Tagged(mem)
            /\ \A i \in Tagged(mem) : mem'[Slot(i)] = mem[Slot(i)]]_vars
    /\ [][(pc = "panic" /\ completed' # completed) =>
            /\ TESTS.waiting_for_completion
            /\ Len(completed') = Len(completed) + 1
            /\ completed'[Len(completed')].test = TESTS.index + 1
            /\ pc' = "entry"
            /\ resets' = resets + 1
            /\ TESTS'.index = TESTS.index + 1]_vars
    /\ [][PanicsWhileRecording =>
            /\ completed' = completed
            /\ ~TESTS'.waiting_for_completion
            /\ TESTS'.index = TESTS.index
            /\ TESTS'.data = TESTS.data]_vars
    /\ [][(pc = "panic" /\ ~TESTS.waiting_for_completion) =>
            /\ pc' = "halt"
            /\ mem' = mem
            /\ TESTS' = TESTS
            /\ completed' = completed
            /\ records' = records
            /\ reported' = Append(reported, 2)]_vars
    /\ [](/\ \A j, k \in 1..Len(completed) :
               completed[j].test = completed[k].test => j = k
          /\ Cardinality(Tagged(mem)) <= Len(started)
          /\ Cardinality(Tagged(mem)) \in { Len(completed), Len(completed) + 1 })

\* The panic handler recorded the second test, and the third test's
\* message did not fit while the handler was recording it: three slots are
\* tagged, two outcomes are recorded, and the run has halted with code 2.
C26_Witness ==
    /\ pc = "halt"
    /\ Len(started) = MaxTests
    /\ Len(completed) = MaxTests - 1
    /\ Cardinality(Tagged(mem)) = MaxTests
    /\ tests[MaxTests].body = "panics"
    /\ tests[MaxTests - 1].body = "panics"
    /\ reported = << 2 >>

(***************************************************************************)
(* The outcome of a body that returns                                      *)
(***************************************************************************)
\* What the runner records for a test whose body returned.
Returned(test) ==
    IF test.should_panic = "No"
    THEN [tag |-> Passed, data |-> <<>>]
    ELSE [tag |-> Failed, data |-> NoteDidNotPanic]

Finished ==
    /\ Len(completed) = Len(tests)
    /\ \A i \in 1..Len(completed) : completed[i].test = i
    /\ TESTS.index = Len(tests)
    /\ reported # <<>>
    /\ reported[1] \in { 0, 1 }

\* The run has ended because the tags or a message did not fit.
NoRoom ==
    /\ pc = "halt"
    /\ \/ info = TestsNewInfo(ewram_data_end, Len(tests))
       \/ /\ info.message # <<>>
          /\ info.message[1] = NotEnoughSpace

\* The panic handler is entered again and again with a test in flight.
HandlerNeverEnds == pc = "overflow"

\* A panic handler that was entered again resets, displays or overflows
\* after at most two more entries.
HandlerMovesOn ==
    [][(pc = "panic" /\ pc' = "panic") =>
         \A checks \in BOOLEAN :
           LET h == panic(checks, info', INITIALIZED', TESTS', mem', tests)
               g == panic(checks, h.info, INITIALIZED', h.t, h.m, tests)
           IN \/ h.next # "panic"
              \/ h.info = info' /\ h.t = TESTS' /\ h.m = mem'
              \/ g.next # "panic"
              \/ g.info = h.info /\ g.t = h.t /\ g.m = h.m]_vars

\* C28: when every body returns or panics and every message fits, the
\* run that starts at a cold boot eventually reaches the finished state:
\* every test has exactly one recorded outcome and the result code has
\* been reported.
C28_Terminates == <>(Finished \/ NoRoom)

\* The run ends in one of three ways, and every boot completes at most one
\* test and is followed by a reset while tests remain.
C28_TerminatesUnlessHandlerLoops ==
    /\ <>(Finished \/ NoRoom \/ HandlerNeverEnds)
    /\ [](Finished => [](Len(completed) = Len(tests)))
    /\ [][/\ Len(completed') <= Len(completed) + 1
          /\ Len(completed') = Len(completed) + 1 =>
                (pc' = "entry" /\ resets' = resets + 1)
          /\ resets' # resets => Len(completed') = Len(completed) + 1
          /\ (pc = "entry" /\ pc' # "panic" /\ Len(completed) < Len(tests)) =>
                started' # started]_vars

\* All three tests were recorded over three resets and code 1 was reported.
C28_Reached ==
    /\ Finished
    /\ Len(tests) = MaxTests
    /\ resets = MaxTests
    /\ reported = << 1 >>
    /\ pc = "browse"

\* The second test's panic sent the handler into a loop: one test is
\* recorded, nothing is reported and no step is left.
C28_Stuck ==
    /\ HandlerNeverEnds
    /\ Len(completed) = 1
    /\ Len(tests) = MaxTests
    /\ ewram_data_end = EWRAM_MAX - RunnerFree
    /\ reported = <<>>

(***************************************************************************)
(* The slide of the window                                                 *)
(***************************************************************************)
\* What the page shows for window w: iter().take(SIZE).
Visible(w) == take(Window_iter(w, mem, tests), SIZE)

\* The message-region position just past the records of the Failed
\* elements among the first k tests.
RECURSIVE DataAfter(_, _)
DataAfter(it, k) ==
    IF k = 0 THEN it.data
    ELSE DataAfter(TestOutcomesIter_next(it, mem, Len(tests)).it, k - 1)

\* The slice of SIZE matching elements that starts at the k-th.
Slice(k) == SubSeq(Matching, k, k + SIZE - 1)

\* A call of next() or prev() has returned an element.
Slid(op) ==
    /\ pc = "page"
    /\ pc' = "page"
    /\ window' # window
    /\ slide'.op = op
    /\ slide'.some

\* What a call that returned an element did to the slice, to
\* filtered_index and to front.
SlideLaw ==
    /\ Slid("next") =>
         /\ \E k \in 1..Len(Matching) :
               /\ k + SIZE <= Len(Matching)
               /\ Visible(window) = Slice(k)
               /\ Visible(window') = Slice(k + 1)
         /\ window'.filtered_index = window.filtered_index + 1
         /\ window'.index > window.index
         /\ window'.error_message_front =
                DataAfter(TestOutcomes_iter(view), window'.index)
    /\ Slid("prev") =>
         /\ \E k \in 1..Len(Matching) :
               /\ k + SIZE <= Len(Matching)
               /\ Visible(window) = Slice(k + 1)
               /\ Visible(window') = Slice(k)
         /\ window'.filtered_index = window.filtered_index - 1
         /\ window'.index < window.index
         /\ window'.error_message_front =
                DataAfter(TestOutcomes_iter(view), window'.index)

\* C29: a next() that returns an element slides the visible slice forward
\* by exactly one matching element: the first leaves, the next match after
\* the last enters, the others keep their order, filtered_index grows by
\* one and front moves past exactly the messages of the Failed elements
\* that left; a prev() that returns an element is the mirror.
C29_SlidesByOne == [][SlideLaw]_vars

\* The same for the windows whose first test does not match, which
\* Window::new places on the first matching element.
C29_SlidesWhereFirstKept ==
    [][((Slid("next") \/ Slid("prev")) /\ Matching[1].test # 1) => SlideLaw]_vars

\* next() has returned an element on a window that showed the last SIZE
\* matching elements: nothing entered, and the page shows SIZE - 1.
C29_SlidOffTheEnd ==
    /\ pc = "page"
    /\ slide.op = "next"
    /\ slide.some
    /\ Len(Matching) > SIZE
    /\ Matching[1].test = 1
    /\ Len(Visible(window)) = SIZE - 1

\* next() and then prev() have returned elements on a window whose first
\* test does not match, past a Failed element.
C29_Slid ==
    /\ pc = "page"
    /\ slide.op = "prev"
    /\ slide.some
    /\ Matching # <<>>
    /\ Matching[1].test # 1
    /\ \E i \in 1..Len(Matching) : Matching[i].tag = Failed

(***************************************************************************)
(* The four positions of the window                                        *)
(***************************************************************************)
\* The test-case slot and the tag slot are at index, and front is just
\* past the records of the Failed elements before index.
SlotsAndFront ==
    /\ window.test_case = window.index
    /\ window.outcome = view.outcomes + window.index
    /\ window.index <= window.length
    /\ window.error_message_front =
           DataAfter(TestOutcomes_iter(view), window.index)

\* The position just past the record of the last visible element, and the
\* position of the record of the first matching element below the page
\* (the end of the records where there is none).
BackLow ==
    LET v == Visible(window)
    IN IF v = <<>> THEN window.error_message_front
       ELSE DataAfter(TestOutcomes_iter(view), v[Len(v)].test)

BackHigh ==
    LET w == Window_iter(window, mem, tests)
    IN IF Len(w) > SIZE
       THEN DataAfter(TestOutcomes_iter(view), w[SIZE + 1].test - 1)
       ELSE DataAfter(TestOutcomes_iter(view), Len(tests))

\* Back lies between the end of the record of the last visible element
\* and the record of the next matching element below the page.
BackBetween ==
    /\ window.error_message_back >= BackLow
    /\ window.error_message_back <= BackHigh

\* C30: in every state of the window the test-case slot and the tag slot
\* are at index, front is just past the records of the Failed elements
\* before index, and back is just past the record of the last element of
\* the visible slice (records of elements below the page that do not
\* match may lie before it).
C30_LockStep == pc = "page" => (SlotsAndFront /\ BackBetween)

\* The slots and front are where the claim puts them.
C30_SlotsAndFrontHold == pc = "page" => SlotsAndFront

\* Window::new has returned a window on the first matching element whose
\* back was read from beyond the last record.
C30_BackLost ==
    /\ pc = "page"
    /\ slide.op = "new"
    /\ Matching # <<>>
    /\ Matching[1].test # 1
    /\ SlotsAndFront
    /\ window.error_message_back = Uninit

\* A window just built over a list whose first test matches and is not
\* Failed, on a page of SIZE elements that ends in a Failed one: back is
\* just past its record.
C30_FreshBack ==
    /\ pc = "page"
    /\ slide.op = "new"
    /\ Len(Visible(window)) = SIZE
    /\ Visible(window)[SIZE].tag = Failed
    /\ window.error_message_back = BackLow
    /\ window.error_message_back > window.error_message_front

(***************************************************************************)
(* The top of the message region.                                          *)
(***************************************************************************)
\* The addresses at or beyond EWRAM_MAX that hold a written byte.
BeyondTop(m) == { a \in DOMAIN m : a >= EWRAM_MAX /\ m[a] # Uninit }

\* C31: no byte of a message record (header, message bytes, padding,
\* footer) is ever written at or beyond EWRAM_MAX, a record to which no
\* bytes were written included.
C31_BelowTop == BeyondTop(mem) = {}

\* What write_str guards: a complete_test whose Display calls write_str at
\* least once writes nothing at or beyond EWRAM_MAX, whatever the state.
C31_GuardedWhenWritten ==
    (pc = "api" /\ TESTS.waiting_for_completion) =>
        \A c \in LedgerTexts \ { <<>> } :
            BeyondTop(complete_test(TESTS, mem, [tag |-> Failed, data |-> c]).m)
                = BeyondTop(mem)

\* A Failed outcome whose Display never called write_str was finalized
\* with its footer beyond EWRAM_MAX.
C31_FooterBeyondTop ==
    /\ pc = "api"
    /\ records # <<>>
    /\ records[Len(records)].str = <<>>
    /\ records[Len(records)].end > EWRAM_MAX
    /\ BeyondTop(mem) # {}

\* A record was finalized with its footer ending exactly at EWRAM_MAX.
C31_FooterAtTop ==
    /\ pc = "api"
    /\ records # <<>>
    /\ records[Len(records)].end = EWRAM_MAX
    /\ records[Len(records)].str # <<>>
    /\ BeyondTop(mem) = {}

(***************************************************************************)
(* More properties of the module walker.                                   *)
(***************************************************************************)
\* The elements of the walk from the k-th on can be laid along the tests
\* in declaration order: each is a prefix of the module path of test t or
\* of a later test, and one laid on the same test as the element before
\* it is longer than that element (len).
RECURSIVE InOrder(_, _, _)
InOrder(k, t, len) ==
    IF k > Len(walked) THEN TRUE
    ELSE LET p == walked[k]
             cands == { u \in t..Len(tests) :
                          /\ starts_with(TestCase_modules(tests[u]), p)
                          /\ (u = t => Len(p) > len) }
         IN /\ cands # {}
            /\ InOrder(k + 1, CHOOSE u \in cands : \A v \in cands : u <= v,
                       Len(p))

\* C32: the walker yields the sentinel ["--none--"] first; every later
\* element is a non-empty prefix of some test's module path whose parent
\* (the element without its last segment) is a prefix of the walk's parent
\* path; the elements follow the declaration order of the tests, shorter
\* prefixes of one test before longer ones.
C32_WalkShape ==
    (pc = "modules" /\ walked # <<>>) =>
        /\ walked[1] = Sentinel
        /\ \A k \in 2..Len(walked) :
             /\ walked[k] # <<>>
             /\ \E i \in 1..Len(tests) :
                  starts_with(TestCase_modules(tests[i]), walked[k])
             /\ starts_with(walker.parent,
                            SubSeq(walked[k], 1, Len(walked[k]) - 1))
        /\ InOrder(2, 1, 0)

\* A finished walk under parent a that yielded a, then a::b from the same
\* test, then an element of a later test.
C32_Witness ==
    /\ WalkDone
    /\ walker.parent = << "a" >>
    /\ Len(walked) = 4
    /\ walked[2] = << "a" >>
    /\ walked[3] = << "a", "b" >>
    /\ TestCase_modules(tests[1]) = << "a", "b" >>
    /\ walked[4] # walked[2]

\* The sum of the lengths of the tests' module paths from test i on.
RECURSIVE PathLengths(_)
PathLengths(i) ==
    IF i > Len(tests) THEN 0
    ELSE Len(TestCase_modules(tests[i])) + PathLengths(i + 1)

\* A next() that returns none after a next() that returned none.
NoneStays ==
    (WalkDone /\ slide'.op = "modules_next") =>
        (~slide'.some /\ walked' = walked /\ walker' = walker)

RECURSIVE PowerOfBase(_)
PowerOfBase(n) == IF n = 0 THEN 1 ELSE (PowerOfBase(n - 1) * 256) % 101

\* The base-256 polynomial of the bytes, modulo 101: the sum of
\* b[i] * 256^(n - i).
RECURSIVE Polynomial(_)
Polynomial(b) ==
    IF b = <<>> THEN 0
    ELSE (Head(b) * PowerOfBase(Len(b) - 1) + Polynomial(Tail(b))) % 101

\* The bytes the searcher's rolling hash stands for: what it has of the
\* initial fill, then the window of `length` bytes from index on.
HashWindow ==
    IF searcher.rolled < searcher.length
    THEN SubSeq(info.message[1], 1, searcher.rolled)
    ELSE SubSeq(info.message[1], searcher.index + 1,
                searcher.index + searcher.length)

HashLaw ==
    /\ hash(<< 104, 105 >>) = 65
    /\ hash(<< 97, 98, 114 >>) = 4
    /\ hash(<< 98, 114, 97 >>) = 30
    /\ searcher.hash = Polynomial(tests[1].expected)
    /\ ~searcher.underflow
    /\ searcher.rolling_hash = Polynomial(HashWindow)

\* C34: hash is the base-256 polynomial of the bytes modulo 101 (65 for
\* "hi", 4 for "abr", 30 for "bra"), and after the initial fill and after
\* every roll step rolling_hash is the hash of the current window of
\* `length` message bytes, for every byte and every target length >= 1,
\* with no subtraction going below zero.
C34_RollingHash == pc \in { "hash", "contained", "panic" } => HashLaw

\* The same for expected strings of two bytes or more, and for messages
\* whose bytes all are below 202.
C34_RollingHashOfLongerTargets ==
    (/\ pc \in { "hash", "contained", "panic" }
     /\ \/ searcher.length >= 2
        \/ \A i \in 1..Len(info.message[1]) : info.message[1][i] < 202)
        => HashLaw

\* The subtraction went below zero and the build without overflow checks
\* has gone on with a rolling hash that is not the hash of its window.
C34_Wrapped ==
    /\ pc = "hash"
    /\ searcher.underflow
    /\ searcher.length = 1
    /\ searcher.rolling_hash # Polynomial(HashWindow)

\* A window of three bytes was rolled twice over bytes above 127 and the
\* rolling hash is the hash of the window.
C34_Rolled ==
    /\ pc \in { "hash", "contained" }
    /\ searcher.length = 3
    /\ searcher.index = 2
    /\ \E i \in 1..fed : info.message[1][i] >= 202
    /\ HashLaw

(***************************************************************************)
(* Properties of the byte remover.                                         *)
(***************************************************************************)
\* A ByteRemover for the byte at offset index of the message, as
\* RabinKarpSearch::write_str builds it.
Remover(h, index) ==
    [rolling_hash |-> h, length |-> Len(tests[1].expected), index |-> index,
     done |-> FALSE, panic |-> FALSE, len |-> 0, underflow |-> FALSE]

\* The byte at offset index of the message is the first byte of a piece
\* other than the first piece.
RECURSIVE FirstOfLaterChunk(_, _, _)
FirstOfLaterChunk(chunks, index, seen) ==
    IF chunks = <<>> THEN FALSE
    ELSE IF index < Len(Head(chunks)) THEN seen /\ index = 0
    ELSE FirstOfLaterChunk(Tail(chunks), index - Len(Head(chunks)), TRUE)

\* Written the message, the remover has taken the contribution of the
\* byte at offset index out of the rolling hash, once, without indexing
\* past the end of a piece.
Removes(index) ==
    LET br == ByteRemover_write(Remover(hash(tests[1].expected), index),
                                info.message)
    IN /\ ~br.panic
       /\ br.done
       /\ (br.rolling_hash
              + Flatten(info.message)[index + 1]
                    * PowerOfBase(Len(tests[1].expected) - 1)) % MODULUS
              = hash(tests[1].expected)

\* C35: however the message is split into pieces (empty pieces included),
\* ByteRemover subtracts the contribution of exactly the message byte at
\* offset index, exactly once, and never indexes at or past the end of a
\* piece, also where that byte is the first byte of a later piece.
C35_RemovesByteAtIndex ==
    (pc \in { "contains", "contained", "panic" } /\ tests[1].expected # <<>>) =>
        \A index \in 0..(Len(Flatten(info.message)) - 1) : Removes(index)

\* The same for every byte that is not the first byte of a later piece.
C35_RemovesWithinChunk ==
    (pc \in { "contains", "contained", "panic" } /\ tests[1].expected # <<>>) =>
        \A index \in 0..(Len(Flatten(info.message)) - 1) :
            ~FirstOfLaterChunk(info.message, index, FALSE) => Removes(index)

\* contains() was called on a message of two pieces and has panicked: the
\* remover was to remove the first byte of the second piece, and indexed
\* the first piece at its length.
C35_IndexedAtLength ==
    /\ pc = "panic"
    /\ answer.called
    /\ Len(info.message) = 2
    /\ Len(info.message[1]) = 1
    /\ Len(info.message[2]) = 2
    /\ Len(tests[1].expected) = 1
    /\ ~Removes(1)
    /\ Removes(0)
    /\ Removes(2)

\* contains() was called on a message of three pieces, one of them empty,
\* has rolled over a piece boundary and has returned.
C35_RemovedAcrossChunks ==
    /\ pc = "contained"
    /\ answer.called
    /\ Len(info.message) = 3
    /\ info.message[1] # <<>>
    /\ info.message[2] = <<>>
    /\ Len(info.message[3]) = 2
    /\ Len(tests[1].expected) = 2
    /\ Removes(Len(info.message[1]) + 1)

(***************************************************************************)
(* What the window reads.                                                  *)
(***************************************************************************)
\* Where the records of the finished ledger begin and end.
RecordStarts == { records[k].start : k \in 1..Len(records) }
RecordEnds == { records[k].end : k \in 1..Len(records) }

\* The tag slot at pointer p is a slot of the tag array.
InTagArray(w, p) == p >= view.outcomes /\ p < view.outcomes + w.length

\* The reads of the next_unfiltered calls of one Window::new or next()
\* from w are sound: the slot stepped to, and the header decoded through
\* front where the slot left is Failed; with `back`, also the header
\* decoded through back where the slot stepped to is Failed.
RECURSIVE NextSound(_, _)
NextSound(w, back) ==
    LET r == next_unfiltered(w, mem)
    IN IF ~r.some THEN TRUE
       ELSE /\ InTagArray(w, w.outcome + 1)
            /\ InTagArray(w, w.outcome)
            /\ (read_u8(mem, w.outcome) = Failed
                    => w.error_message_front \in RecordStarts)
            /\ ((back /\ r.tag = Failed)
                    => w.error_message_back \in RecordStarts)
            /\ \/ is_match(w.filter, w.module_filter, r.tag,
                           tests[r.w.test_case + 1])
               \/ NextSound(r.w, back)

\* The same for the prev_unfiltered calls of one prev(): the slot stepped
\* to and the footer decoded through front; with `back`, also the slot
\* SIZE further on and the footer decoded through back.
RECURSIVE PrevSound(_, _)
PrevSound(w, back) ==
    LET r == prev_unfiltered(w, mem)
    IN IF ~r.some THEN TRUE
       ELSE /\ InTagArray(w, w.outcome - 1)
            /\ (r.tag = Failed => w.error_message_front \in RecordEnds)
            /\ back => /\ InTagArray(w, w.outcome - 1 + SIZE)
                       /\ (read_u8(mem, w.outcome - 1 + SIZE) = Failed
                              => w.error_message_back \in RecordEnds)
            /\ \/ is_match(w.filter, w.module_filter, r.tag,
                           tests[r.w.test_case + 1])
               \/ PrevSound(r.w, back)

\* The Window::new that built the window in hand, and the next() and the
\* prev() that can be called on it, read soundly.
ReadsSound(back) ==
    /\ NextSound(Window_struct(view, window.filtered_length, window.filter,
                               window.module_filter, mem, tests), back)
    /\ NextSound(window, back)
    /\ PrevSound(window, back)

\* C36: in every sequence of Window::new, next() and prev() over a
\* finished ledger, every tag slot the window reads is a slot of the tag
\* array, and every header or footer it decodes through front or back is
\* that of a record of the ledger.
C36_ReadsInBounds == pc = "page" => ReadsSound(TRUE)

\* The same for the slot the window steps to and for what it decodes
\* through front.
C36_FrontReadsInBounds == pc = "page" => ReadsSound(FALSE)

\* prev() has returned an element after reading the tag slot SIZE places
\* further on, which is past the end of the tag array.
C36_ReadPastTagArray ==
    /\ pc = "page"
    /\ slide.op = "prev"
    /\ slide.some
    /\ window.index + SIZE >= window.length
    /\ NextSound(window, FALSE)

\* A window whose back was decoded from memory that holds no record.
C36_DecodedNoRecord ==
    /\ pc = "page"
    /\ slide.op \in { "next", "prev" }
    /\ slide.some
    /\ window.error_message_back \notin RecordStarts \cup RecordEnds
                                          \cup { view.data }
    /\ window.error_message_front \in RecordStarts \cup RecordEnds
                                          \cup { view.data }

\* next() and prev() have moved a window over Failed elements and all its
\* reads were sound.
C36_SoundTrip ==
    /\ pc = "page"
    /\ trip.there_and_back
    /\ records # <<>>
    /\ window.error_message_front \in RecordEnds
    /\ ReadsSound(TRUE)

(***************************************************************************)
(* How many elements the page shows.                                       *)
(***************************************************************************)
\* C37: whenever the filter matches at least SIZE elements, the visible
\* slice holds exactly SIZE elements at every position of the window, the
\* initial and the last included.
C37_FullPage ==
    (pc = "page" /\ Len(Matching) >= SIZE) => Len(Visible(window)) = SIZE

\* The same for the windows Window::new builds on the first matching
\* element: those the filter matches exactly SIZE elements of, and those
\* whose first test does not match.
C37_FullPageWhereFirstKept ==
    (/\ pc = "page"
     /\ Len(Matching) >= SIZE
     /\ \/ Len(Matching) = SIZE
        \/ Matching[1].test /= 1)
        => Len(Visible(window)) = SIZE

\* The last position next() reaches shows fewer than SIZE elements.
C37_LastPageShort ==
    /\ pc = "page"
    /\ slide.op = "next"
    /\ slide.some
    /\ Len(Matching) >= SIZE
    /\ window.filtered_index = window.filtered_length - SIZE
    /\ Len(Visible(window)) < SIZE

\* The initial position, and the last position of a window whose first
\* test does not match, show SIZE elements.
C37_InitialPageFull ==
    /\ pc = "page"
    /\ slide.op = "new"
    /\ Len(Matching) > SIZE
    /\ Len(Visible(window)) = SIZE

C37_LastPageFull ==
    /\ pc = "page"
    /\ slide.op = "next"
    /\ slide.some
    /\ Matching[1].test /= 1
    /\ window.filtered_index = window.filtered_length - SIZE
    /\ Len(Visible(window)) = SIZE
    /\ Visible(window)[SIZE] = Matching[Len(Matching)]

(***************************************************************************)
(* The cursors of the ledger against its counters.                         *)
(***************************************************************************)
\* The tag slots written so far and those of them that hold Failed.
TagsWritten == TESTS.outcomes - ewram_data_end
FailedTagsWritten ==
    Cardinality({ a \in ewram_data_end..(TESTS.outcomes - 1) :
                     read_u8(mem, a) = Failed })

\* C38: in every state outside a complete_test call, the terminal state
\* after a fatal capacity failure included, the number of tags written
\* equals index and the number of finalized records equals the number of
\* Failed tags written.
C38_CountersAgree ==
    INITIALIZED =>
        /\ TagsWritten = TESTS.index
        /\ Len(records) = FailedTagsWritten

\* The same for every state but the one a complete_test that found no room
\* ends in; there, one tag more than index and one Failed tag more than
\* records have been written.
C38_CountersAgreeUnlessFull ==
    INITIALIZED =>
        IF RegionFull
        THEN /\ TagsWritten = TESTS.index + 1
             /\ FailedTagsWritten = Len(records) + 1
             /\ read_u8(mem, TESTS.outcomes - 1) = Failed
        ELSE /\ TagsWritten = TESTS.index
             /\ Len(records) = FailedTagsWritten

\* The terminal state after a fatal capacity failure, with tests completed
\* before it.
C38_AfterCapacityFailure ==
    /\ pc = "fatal"
    /\ RegionFull
    /\ last.op = "complete_test"
    /\ last.panic
    /\ TESTS.index >= 1
    /\ TagsWritten = TESTS.index + 1

\* A ledger with Failed and other tests completed whose counters agree.
C38_Agreeing ==
    /\ pc = "api"
    /\ TESTS.index >= 2
    /\ TagsWritten = TESTS.index
    /\ Len(records) = FailedTagsWritten
    /\ Len(records) >= 1
    /\ Len(records) < TESTS.index

(***************************************************************************)
(* Properties of the allocator.                                            *)
(***************************************************************************)
\* The step is a call of alloc; blocks' ends with what it returned.
AllocStep == Len(blocks') = Len(blocks) + 1

\* What State::alloc is to do with the cursor: down to a multiple of the
\* alignment, then down by the size, not below address 0.
Lowered(cursor, layout) ==
    LET aligned == (cursor \div layout.align) * layout.align
    IN IF aligned - layout.size < 0 THEN 0 ELSE aligned - layout.size

\* A call of alloc: the cursor is lowered, the limit kept, and the lowered
\* cursor is returned if it is at or above the limit, null otherwise; on
\* failure the cursor stays lowered.
AllocLaw ==
    AllocStep =>
        LET b == blocks'[Len(blocks')]
            lowered == Lowered(STATE_.cursor, b.layout)
        IN /\ STATE_'.cursor = lowered
           /\ STATE_'.limit = STATE_.limit
           /\ b.ptr = IF lowered >= STATE_.limit THEN lowered ELSE null_mut

\* A non-null block lies wholly within [limit, previous cursor).
BlockLaw ==
    AllocStep =>
        LET b == blocks'[Len(blocks')]
        IN b.ptr # null_mut =>
              /\ b.ptr >= STATE_.limit
              /\ b.ptr + b.layout.size <= STATE_.cursor

\* A non-null block is aligned as its layout asks.
AlignedLaw ==
    AllocStep =>
        LET b == blocks'[Len(blocks')]
        IN b.ptr # null_mut => b.ptr % b.layout.align = 0

\* The same for the layouts whose size is a multiple of their alignment.
AlignedLawOfPaddedLayouts ==
    AllocStep =>
        LET b == blocks'[Len(blocks')]
        IN (b.ptr # null_mut /\ b.layout.size % b.layout.align = 0)
              => b.ptr % b.layout.align = 0

\* dealloc never changes the limit either.
LimitLaw == STATE_'.limit = STATE_.limit

\* C39: State::alloc aligns the cursor down, subtracts the size saturating
\* at 0, returns the new cursor if it is at or above limit and null
\* otherwise, never changes limit, leaves the cursor lowered on failure,
\* and a non-null block is aligned and lies within [limit, previous cursor).
C39_Alloc == [][AllocLaw /\ BlockLaw /\ AlignedLaw /\ LimitLaw]_vars

\* All of it but the alignment of blocks whose size is not a multiple of
\* their alignment.
C39_AllocOfPaddedLayouts ==
    [][AllocLaw /\ BlockLaw /\ AlignedLawOfPaddedLayouts /\ LimitLaw]_vars

\* A non-null block that is not aligned as its layout asks.
C39_Misaligned ==
    /\ pc = "state"
    /\ blocks # <<>>
    /\ blocks[Len(blocks)].ptr # null_mut
    /\ blocks[Len(blocks)].ptr % blocks[Len(blocks)].layout.align # 0

\* The four unit tests' cases: a block from an aligned and from an
\* unaligned cursor, a failure above address 0 and a saturated one.
C39_Allocated ==
    /\ pc = "state"
    /\ Len(blocks) = 1
    /\ blocks[1] = [ptr |-> 24, layout |-> [size |-> 8, align |-> 4],
                    before |-> 35, live |-> TRUE]
    /\ STATE_ = [cursor |-> 24, limit |-> 0]

C39_Failed ==
    /\ pc = "state"
    /\ Len(blocks) = 1
    /\ blocks[1] = [ptr |-> null_mut, layout |-> [size |-> 8, align |-> 4],
                    before |-> 32, live |-> FALSE]
    /\ STATE_ = [cursor |-> 24, limit |-> 30]

C39_Saturated ==
    /\ pc = "state"
    /\ Len(blocks) = 1
    /\ blocks[1].ptr = null_mut
    /\ blocks[1].before = 4
    /\ STATE_ = [cursor |-> 0, limit |-> 2]

\* The step starts a test: start_test has returned one.
StartsTest == started' # started

\* When a test is started the allocator has just been initialised: the
\* cursor at the top of EWRAM, the limit at the ledger's append cursor, and
\* nothing handed out.
InitLaw ==
    StartsTest =>
        /\ STATE_'.cursor = EWRAM_MAX
        /\ STATE_'.limit = data_cursor(TESTS')
        /\ blocks' = <<>>

\* The bytes from..to - 1 and the bytes of block b have none in common.
Apart(b, from, to) ==
    \/ b.layout.size = 0
    \/ from >= to
    \/ b.ptr + b.layout.size <= from
    \/ b.ptr >= to

\* No non-null block handed out to the running test overlaps the tag array
\* or a record written for an earlier test, or reaches beyond the top.
NoOverlap ==
    pc = "test" =>
        \A k \in 1..Len(blocks) :
            blocks[k].ptr # null_mut =>
                /\ Apart(blocks[k], ewram_data_end,
                         ewram_data_end + Len(tests))
                /\ \A i \in 1..Len(records) :
                       Apart(blocks[k], records[i].start, records[i].end)
                /\ blocks[k].ptr >= data_cursor(TESTS)
                /\ blocks[k].ptr + blocks[k].layout.size <= EWRAM_MAX

\* C40: on every boot the allocator is initialised before a test is
\* started, the cursor at the top of the region and the limit at the
\* ledger's append cursor, so that no non-null block handed out during a
\* test overlaps the tag array or a record written for an earlier test.
C40_HeapAboveLedger == [][InitLaw]_vars /\ []NoOverlap

\* A later test has been handed a block just above the records of the
\* earlier tests, and refused one that would have reached into them.
C40_Witness ==
    /\ pc = "test"
    /\ resets >= 1
    /\ records # <<>>
    /\ STATE_.limit = records[Len(records)].end
    /\ Len(blocks) = 2
    /\ blocks[1].ptr # null_mut
    /\ blocks[2].ptr = null_mut
    /\ blocks[2].before - blocks[2].layout.size < STATE_.limit
    /\ blocks[2].before - blocks[2].layout.size >= ewram_data_end

=============================================================================
